---------------------------- MODULE Spec2Model ----------------------------
(***************************************************************************)
(* Model of the transaction store of spendings-backend                     *)
(* (src/internal/service/statistics.go, lines 429-854): the repeat-spec    *)
(* resolver, the RWMutex-guarded user -> id -> transaction map, the lazy   *)
(* seeding of a user's collection and the daily materialisation of         *)
(* recurring transactions.                                                 *)
(*                                                                         *)
(* Time.  A time.Time is an integer number of ticks since 1970-01-01       *)
(* 00:00 UTC, TicksPerDay ticks to the day.  The server's Location is UTC  *)
(* (time.Parse yields UTC; time.Now() is taken in the same zone), so the   *)
(* calendar fields of an instant are those of its UTC day.                 *)
(*                                                                         *)
(* Strings.  A Go string is a sequence of one-character strings, so that   *)
(* strings.Split, strings.TrimSpace, strings.ToLower, strconv.Atoi,        *)
(* strconv.Itoa and time.Parse are computed, not assumed.                  *)
(***************************************************************************)
EXTENDS Integers, Sequences, FiniteSets, TLC

(***************************************************************************)
(* Bounds of the model.                                                    *)
(***************************************************************************)
\* ticks in one day: the resolution of the time of day
TicksPerDay == 2
\* longest token list drawn for the resolver's multi-token inputs
MaxTokens == 2
\* number of consecutive reference dates given to the resolver
NumRefDays == 427

(***************************************************************************)
(* The calendar of package time (proleptic Gregorian, UTC).                *)
(***************************************************************************)
\* days from 1970-01-01 to the first day of month m (any integer) of year y,
\* plus d - 1: time.Date normalises a month outside 1..12 into the year and
\* lets a day outside the month run over into the next months
DaysFromCivil(y, m, d) ==
    LET m0  == m - 1
        yn  == y + (m0 \div 12)
        mn  == (m0 % 12) + 1
        ya  == IF mn <= 2 THEN yn - 1 ELSE yn
        era == ya \div 400
        yoe == ya - era * 400
        mp  == IF mn > 2 THEN mn - 3 ELSE mn + 9
        doy == (153 * mp + 2) \div 5 + d - 1
        doe == yoe * 365 + (yoe \div 4) - (yoe \div 100) + doy
    IN  era * 146097 + doe - 719468

\* the civil date <<year, month, day>> of a day number
CivilFromDays(z) ==
    LET z0  == z + 719468
        era == z0 \div 146097
        doe == z0 - era * 146097
        yoe == (doe - (doe \div 1460) + (doe \div 36524) - (doe \div 146096)) \div 365
        doy == doe - (365 * yoe + (yoe \div 4) - (yoe \div 100))
        mp  == (5 * doy + 2) \div 153
        dd  == doy - ((153 * mp + 2) \div 5) + 1
        mm  == IF mp < 10 THEN mp + 3 ELSE mp - 9
        yy  == yoe + era * 400 + (IF mm <= 2 THEN 1 ELSE 0)
    IN  <<yy, mm, dd>>

\* the UTC day number of an instant, and its offset inside that day
DayOf(t) == t \div TicksPerDay
TimeOfDay(t) == t % TicksPerDay

Year(t) == CivilFromDays(DayOf(t))[1]
Month(t) == CivilFromDays(DayOf(t))[2]
Day(t) == CivilFromDays(DayOf(t))[3]

\* time.Weekday: Sunday = 0 .. Saturday = 6; 1970-01-01 was a Thursday
Weekday(t) == (DayOf(t) + 4) % 7

\* time.Date(y, m, d, 0, 0, 0, 0, loc)
Date(y, m, d) == DaysFromCivil(y, m, d) * TicksPerDay

\* t.AddDate(years, months, days): the time of day is kept
AddDate(t, years, months, days) ==
    DaysFromCivil(Year(t) + years, Month(t) + months, Day(t) + days) * TicksPerDay
        + TimeOfDay(t)

\* t.Add(n * 24 * time.Hour)
AddDays(t, n) == t + n * TicksPerDay

\* the zero time.Time, January 1 of year 1, 00:00 UTC
ZeroTime == Date(1, 1, 1)
IsZero(t) == t = ZeroTime

\* t.Truncate(24 * time.Hour): rounds down to a multiple of 24h since the
\* zero time, which is a UTC midnight
Truncate24h(t) == t - ((t - ZeroTime) % TicksPerDay)

After(a, b) == a > b
Before(a, b) == a < b

(***************************************************************************)
(* Strings: package strings and strconv.                                   *)
(***************************************************************************)
Digits == <<"0", "1", "2", "3", "4", "5", "6", "7", "8", "9">>

DigitValue(c) == CHOOSE i \in 0..9 : Digits[i + 1] = c
IsDigit(c) == \E i \in 0..9 : Digits[i + 1] = c

Upper == <<"A","B","C","D","E","F","G","H","I","J","K","L","M",
           "N","O","P","Q","R","S","T","U","V","W","X","Y","Z">>
Lower == <<"a","b","c","d","e","f","g","h","i","j","k","l","m",
           "n","o","p","q","r","s","t","u","v","w","x","y","z">>

\* strings.ToLower
ToLowerChar(c) ==
    IF \E i \in 1..26 : Upper[i] = c
    THEN Lower[CHOOSE i \in 1..26 : Upper[i] = c]
    ELSE c
ToLower(s) == [i \in 1..Len(s) |-> ToLowerChar(s[i])]

IsSpace(c) == c \in {" ", "\t"}

\* strings.TrimSpace
RECURSIVE TrimLeft(_)
TrimLeft(s) ==
    IF s # <<>> /\ IsSpace(Head(s)) THEN TrimLeft(Tail(s)) ELSE s
RECURSIVE TrimRight(_)
TrimRight(s) ==
    IF s # <<>> /\ IsSpace(s[Len(s)]) THEN TrimRight(SubSeq(s, 1, Len(s) - 1)) ELSE s
TrimSpace(s) == TrimRight(TrimLeft(s))

\* strings.Split(s, sep) for a one-character separator: always at least one
\* piece, empty pieces kept
RECURSIVE SplitFrom(_, _, _)
SplitFrom(s, sep, cur) ==
    IF s = <<>> THEN <<cur>>
    ELSE IF Head(s) = sep THEN <<cur>> \o SplitFrom(Tail(s), sep, <<>>)
    ELSE SplitFrom(Tail(s), sep, Append(cur, Head(s)))
Split(s, sep) == SplitFrom(s, sep, <<>>)

\* the value of a string of decimal digits
RECURSIVE DigitsValue(_, _)
DigitsValue(s, acc) ==
    IF s = <<>> THEN acc ELSE DigitsValue(Tail(s), acc * 10 + DigitValue(Head(s)))

\* strconv.Atoi: an optional sign and at least one decimal digit
Atoi(s) ==
    LET signed == s # <<>> /\ Head(s) \in {"+", "-"}
        body   == IF signed THEN Tail(s) ELSE s
        ok     == body # <<>> /\ \A i \in 1..Len(body) : IsDigit(body[i])
        mag    == IF ok THEN DigitsValue(body, 0) ELSE 0
    IN  [ok |-> ok, val |-> IF signed /\ Head(s) = "-" THEN 0 - mag ELSE mag]

\* strconv.Itoa for a non-negative number
RECURSIVE Itoa(_)
Itoa(n) ==
    IF n < 10 THEN <<Digits[n + 1]>> ELSE Append(Itoa(n \div 10), Digits[(n % 10) + 1])

\* a string list joined with a separator string
RECURSIVE Join(_, _)
Join(parts, sep) ==
    IF parts = <<>> THEN <<>>
    ELSE IF Len(parts) = 1 THEN parts[1]
    ELSE parts[1] \o sep \o Join(Tail(parts), sep)

(***************************************************************************)
(* The repeat-spec resolver.                                               *)
(***************************************************************************)
WeekdayNames ==
    << <<"sun", "sunday">>, <<"mon", "monday">>, <<"tue", "tuesday">>,
       <<"wed", "wednesday">>, <<"thu", "thursday">>, <<"fri", "friday">>,
       <<"sat", "saturday">> >>

\* a Go string literal as a sequence of characters
Str(name) ==
    CASE name = "sun" -> <<"s","u","n">>
      [] name = "sunday" -> <<"s","u","n","d","a","y">>
      [] name = "mon" -> <<"m","o","n">>
      [] name = "monday" -> <<"m","o","n","d","a","y">>
      [] name = "tue" -> <<"t","u","e">>
      [] name = "tuesday" -> <<"t","u","e","s","d","a","y">>
      [] name = "wed" -> <<"w","e","d">>
      [] name = "wednesday" -> <<"w","e","d","n","e","s","d","a","y">>
      [] name = "thu" -> <<"t","h","u">>
      [] name = "thursday" -> <<"t","h","u","r","s","d","a","y">>
      [] name = "fri" -> <<"f","r","i">>
      [] name = "friday" -> <<"f","r","i","d","a","y">>
      [] name = "sat" -> <<"s","a","t">>
      [] name = "saturday" -> <<"s","a","t","u","r","d","a","y">>
      [] name = "Mon" -> <<"M","o","n">>
      [] name = "Thursday" -> <<"T","h","u","r","s","d","a","y">>
      [] name = "FRI" -> <<"F","R","I">>
      [] name = "xyz" -> <<"x","y","z">>
      [] name = "," -> <<",">>
      [] name = ", " -> <<",", " ">>
      [] name = " " -> <<" ">>
      [] name = "" -> <<>>

\* convertToWeekDay: [ok, val], val the time.Weekday
convertToWeekDay(day) ==
    LET low == ToLower(day)
        hit == {w \in 0..6 : \E k \in 1..2 : Str(WeekdayNames[w + 1][k]) = low}
    IN  IF hit = {} THEN [ok |-> FALSE, val |-> 0]
        ELSE [ok |-> TRUE, val |-> CHOOSE w \in hit : TRUE]

\* the candidate of a day-of-month token (lines 660-666)
DayOfMonthCandidate(now, date) ==
    IF date >= Day(now)
    THEN Date(Year(now), Month(now), date)
    ELSE AddDate(Date(Year(now), Month(now), date), 0, 1, 0)

\* WeekdayCandidate with the test of line 678 written < 0: today's own
\* weekday resolves to today
WeekdayCandidate_AllowsToday(now, weekday) ==
    LET d0 == weekday - Weekday(now)
        daysUntilWeekday == IF d0 < 0 THEN d0 + 7 ELSE d0
        nextTime == AddDate(now, 0, 0, daysUntilWeekday)
    IN  Date(Year(nextTime), Month(nextTime), Day(nextTime))

\* the candidate of a weekday token (lines 675-685)
WeekdayCandidate(now, weekday) ==
    LET d0 == weekday - Weekday(now)
        daysUntilWeekday == IF d0 <= 0 THEN d0 + 7 ELSE d0
        nextTime == AddDate(now, 0, 0, daysUntilWeekday)
    IN  Date(Year(nextTime), Month(nextTime), Day(nextTime))

\* StepToken without the comparisons of lines 668 and 687: the last token's
\* candidate wins
StepToken_LastWins(now, nextAppearDate, rawEvent) ==
    LET nextEvent == TrimSpace(rawEvent)
        num == Atoi(nextEvent)
        wd  == convertToWeekDay(nextEvent)
    IN  IF nextEvent = <<>> THEN nextAppearDate
        ELSE IF num.ok THEN DayOfMonthCandidate(now, num.val)
        ELSE IF wd.ok THEN WeekdayCandidate(now, wd.val)
        ELSE nextAppearDate

\* one turn of the loop over the tokens (lines 654-691): the running
\* nextAppearDate after the token nextEvent
StepToken(now, nextAppearDate, rawEvent) ==
    LET nextEvent == TrimSpace(rawEvent)
        num == Atoi(nextEvent)
        wd  == convertToWeekDay(nextEvent)
    IN  IF nextEvent = <<>> THEN nextAppearDate
        ELSE IF num.ok
        THEN LET nextTime == DayOfMonthCandidate(now, num.val)
             IN  IF After(nextAppearDate, nextTime) THEN nextTime ELSE nextAppearDate
        ELSE IF wd.ok
        THEN LET nextTime == WeekdayCandidate(now, wd.val)
             IN  IF After(nextAppearDate, nextTime) THEN nextTime ELSE nextAppearDate
        ELSE nextAppearDate

RECURSIVE FoldTokens(_, _, _)
FoldTokens(now, nextAppearDate, repeatTimes) ==
    IF repeatTimes = <<>> THEN nextAppearDate
    ELSE FoldTokens(now, StepToken(now, nextAppearDate, Head(repeatTimes)),
                    Tail(repeatTimes))

\* calculateNextAppearDate (lines 650-694); its error result is always nil
calculateNextAppearDate(now, repeatTime) ==
    FoldTokens(now, AddDate(now, 1, 0, 0), Split(repeatTime, ","))


\* validateRepeatString without its checks: every spec passes
validateRepeatString_AcceptsAll(repeatTime) == TRUE

\* validateRepeatString (lines 696-723): TRUE when the error result is nil
validateRepeatString(repeatTime) ==
    LET partOk(raw) ==
            LET part == TrimSpace(raw)
                num  == Atoi(part)
            IN  IF part = <<>> THEN TRUE
                ELSE IF num.ok THEN ~(num.val < 1 \/ num.val > 31)
                ELSE convertToWeekDay(part).ok
        parts == Split(repeatTime, ",")
    IN  IF repeatTime = <<>> THEN TRUE
        ELSE \A i \in 1..Len(parts) : partOk(parts[i])

\* strconv.Itoa for any integer, and the %d of fmt.Errorf
FormatInt(n) == IF n < 0 THEN <<"-">> \o Itoa(0 - n) ELSE Itoa(n)

\* the text validateRepeatString puts into its error for the part raw
\* (lines 711 and 718): the number as %d, or the trimmed part as %s
PartErrorText(raw) ==
    LET part == TrimSpace(raw)
        num  == Atoi(part)
    IN  IF num.ok THEN FormatInt(num.val) ELSE part

\* validateRepeatString (lines 696-723) with its error: [ok, names], names
\* the text the error of the first rejected part carries
validateRepeatStringError(repeatTime) ==
    LET partOk(raw) ==
            LET part == TrimSpace(raw)
                num  == Atoi(part)
            IN  IF part = <<>> THEN TRUE
                ELSE IF num.ok THEN ~(num.val < 1 \/ num.val > 31)
                ELSE convertToWeekDay(part).ok
        parts == Split(repeatTime, ",")
        bad == {i \in 1..Len(parts) : ~partOk(parts[i])}
    IN  IF repeatTime = <<>> \/ bad = {} THEN [ok |-> TRUE, names |-> <<>>]
        ELSE [ok |-> FALSE,
              names |-> PartErrorText(parts[CHOOSE i \in bad : \A j \in bad : i <= j])]

(***************************************************************************)
(* Dates on the wire: layout "2006-01-02".                                 *)
(***************************************************************************)
Pad(n, width) ==
    LET s == Itoa(n)
    IN  [i \in 1..(width - Len(s)) |-> "0"] \o s

\* t.Format("2006-01-02")
FormatDate(t) ==
    Pad(Year(t), 4) \o <<"-">> \o Pad(Month(t), 2) \o <<"-">> \o Pad(Day(t), 2)

\* time.Parse("2006-01-02", s): [ok, val]; the fields must be digits of the
\* layout's widths and name a day that exists
ParseDate(s) ==
    LET shape == /\ Len(s) = 10
                 /\ s[5] = "-" /\ s[8] = "-"
                 /\ \A i \in {1, 2, 3, 4, 6, 7, 9, 10} : IsDigit(s[i])
        y == DigitsValue(SubSeq(s, 1, 4), 0)
        m == DigitsValue(SubSeq(s, 6, 7), 0)
        d == DigitsValue(SubSeq(s, 9, 10), 0)
        exists == /\ m \in 1..12
                  /\ d >= 1
                  /\ CivilFromDays(DaysFromCivil(y, m, d)) = <<y, m, d>>
    IN  IF shape /\ exists THEN [ok |-> TRUE, val |-> Date(y, m, d)]
        ELSE [ok |-> FALSE, val |-> ZeroTime]

(***************************************************************************)
(* The store.                                                              *)
(***************************************************************************)
\* models.IncomeCategory and the categories of the demo data, transliterated
IncomeCategory == "Dohody"
FoodCategory == "Eda"
FunCategory == "Razvlecheniya"

\* the goroutines that call into the store, and the authenticated users
Procs == {"p1", "p2"}
Users == {"u1", "u2"}
NoProc == "none"

\* the values uuid.New().String() returns, in the order of the calls
Uuids == <<"id1", "id2", "id3", "id4", "id5", "id6", "id7", "id8", "id9", "id10",
          "id11", "id12">>

\* number of uuid.New() calls in one behaviour
MaxIds == 2
\* number of clock ticks after the start of a behaviour
MaxTicks == 1
\* read locks that may be held at once
MaxReaders == 2

\* the wall clock at the start: 2025-01-30 (a Thursday), second tick of the day
StartNow == Date(2025, 1, 30) + 1

VARIABLES
    now,            \* time.Now()
    transactions,   \* ts.transactions: user -> id -> Transaction
    readerCount,    \* ts.mux: read locks held
    writer,         \* ts.mux: the goroutine inside Lock() (waiting or holding)
    pc,             \* where each goroutine is in its call
    op,             \* the call a goroutine is executing, with its locals
    result,         \* the value its call returned
    uuidCount,      \* uuid.New() calls made so far
    created,        \* history: <<user, id>> of the Creates that returned, not deleted
    fired,          \* history: <<user, id>> of the transactions a copy was spawned from
    calc,           \* the resolver applied to one input
    env,            \* the goroutines, the users and the uuid budget of this behaviour
    nextRun,        \* recurrence task: the time its next run is due
    userCategories, \* cs.userCategories: user -> list of category names
    held,           \* the values GetBackupData returned, as their holder sees them
    app             \* the application: context, background tasks, shutdown

vars == <<now, transactions, readerCount, writer, pc, op, result, uuidCount,
          created, fired, calc, env, nextRun, userCategories, held, app>>

\* f[k] = v
Put(f, k, v) == [x \in DOMAIN f \cup {k} |-> IF x = k THEN v ELSE f[x]]
\* delete() that removes nothing
Remove_KeepsEntry(f, k) == f

\* delete(f, k)
Remove(f, k) == [x \in DOMAIN f \ {k} |-> f[x]]
EmptyMap == [x \in {} |-> 0]

Transaction(id, amount, title, category, date, nextAppearDate, repeatTime) ==
    [ID |-> id, Amount |-> amount, Title |-> title, Category |-> category,
     Date |-> date, NextAppearDate |-> nextAppearDate, RepeatTime |-> repeatTime]

DemoWaterId == "c38bcbd2"
DemoCinemaId == "21867866"
DemoSalaryId == "a4075928"

\* getInitialTransactions (lines 825-854), called at time t
getInitialTransactions(t) ==
    (DemoWaterId :> Transaction(DemoWaterId, 100, "Voda v zale", FoodCategory,
                                AddDays(t, -2), ZeroTime, <<>>))
    @@ (DemoCinemaId :> Transaction(DemoCinemaId, 100, "Kino", FunCategory,
                                    AddDays(t, -3), ZeroTime, <<>>))
    @@ (DemoSalaryId :> Transaction(DemoSalaryId, 1000, "Zarplata", IncomeCategory,
                                    AddDays(t, -7), AddDate(t, 0, 1, 0), Itoa(Day(t))))

\* NewTransactionsService (lines 451-461): nil initial data is the empty map
NoData == [isNil |-> TRUE, data |-> EmptyMap]
NewTransactionsService(initialData) ==
    IF initialData.isNil THEN EmptyMap ELSE initialData.data

\* NewCategoriesService (part_006 lines 18-41): nil initial data is the
\* empty map
NewCategoriesService(initialData) ==
    IF initialData.isNil THEN EmptyMap ELSE initialData.data

\* a value returned by GetBackupData: its contents, and the users whose map
\* or list in it is the very object the store holds
NoSnapshot == [taken |-> FALSE, shared |-> {}, data |-> EmptyMap]
NoHeld == [transactions |-> NoSnapshot, categories |-> NoSnapshot, writes |-> 0]

\* the background tasks and the goroutine each runs its calls on
Tasks == {"recurrence", "backup"}
TaskProc(t) == IF t = "recurrence" THEN "p1" ELSE "p2"

\* a task before Start is called
NoTask == [pc |-> "off", ticker |-> FALSE, tick |-> FALSE, runs |-> 0]
\* PerformBackup while nobody runs it
NoBackup == [pc |-> "off", caller |-> "none", i |-> 0, run |-> 0, failed |-> FALSE]

\* the application before Start: the context is live, no stopChan is closed,
\* no task runs, nothing has been backed up; appErr is the variable of
\* HandleGracefulShutdown (application.go line 67), named after the goroutine
\* whose error it holds, and returned is what HandleGracefulShutdown returned
NoApp ==
    [ctxDone |-> FALSE, stopChan |-> {}, task |-> [t \in Tasks |-> NoTask],
     ticks |-> 0, backup |-> NoBackup, log |-> {},
     main |-> "new", ready |-> FALSE, serve |-> "off", shut |-> "off",
     appErr |-> "nil", returned |-> "none"]

NoOp == [name |-> "idle"]
NoResult == [kind |-> "none"]

\* the resolver's record while no input is being resolved
NoCalc ==
    [done |-> TRUE, now |-> ZeroTime, tokens |-> <<>>, repeatTime |-> <<>>,
     result |-> ZeroTime]

\* the state after NewTransactionsService(initialData), before any request
InitStore(procs, users, maxIds, initialData) ==
    /\ env = [procs |-> procs, users |-> users, maxIds |-> maxIds]
    /\ nextRun = StartNow
    /\ now = StartNow
    /\ transactions = NewTransactionsService(initialData)
    /\ readerCount = 0
    /\ writer = NoProc
    /\ pc = [p \in Procs |-> "idle"]
    /\ op = [p \in Procs |-> NoOp]
    /\ result = [p \in Procs |-> NoResult]
    /\ uuidCount = 0
    /\ created = {}
    /\ fired = {}
    /\ userCategories = NewCategoriesService(NoData)
    /\ held = NoHeld
    /\ app = NoApp

\* initial data as the config loader reads it from a file: two users, each
\* with one weekly transaction created a week before the start
LoadedData ==
    [isNil |-> FALSE, data |->
        [u \in Users |->
            LET id == IF u = "u1" THEN "t1" ELSE "t2"
                date == AddDays(Truncate24h(StartNow), -7)
                repeatTime == IF u = "u1" THEN Str("thu") ELSE Str("Thursday")
            IN  (id :> Transaction(id, 70, "gym", FunCategory, date,
                                   calculateNextAppearDate(date, repeatTime),
                                   repeatTime))]]

\* two goroutines serve one user of a store that starts empty
Init == InitStore(Procs, {"u1"}, MaxIds, NoData) /\ calc = NoCalc

\* one goroutine serves two users; the store starts empty or loaded
InitSeq ==
    /\ \E initialData \in {NoData, LoadedData} : InitStore({"p1"}, Users, MaxIds, initialData)
    /\ calc = NoCalc

(***************************************************************************)
(* Queries: filter, sort, paginate.                                        *)
(***************************************************************************)
Values(m) == {m[id] : id \in DOMAIN m}

\* PassesDates without lines 486-488: toDate is not looked at
PassesDates_IgnoresToDate(t, fromDate, toDate) ==
    ~(~IsZero(fromDate) /\ Before(t.Date, fromDate))

\* the date filter of lines 482-488 and 564-570
PassesDates(t, fromDate, toDate) ==
    /\ ~(~IsZero(fromDate) /\ Before(t.Date, fromDate))
    /\ ~(~IsZero(toDate) /\ After(t.Date, toDate))

\* the category filter of lines 490-507; categories is the slice as a set
PassesCategories(t, categories) ==
    categories = {} \/ \E category \in categories : t.Category = category

FilterTransactions(userTransactions, categories, fromDate, toDate) ==
    {t \in Values(userTransactions) :
        PassesDates(t, fromDate, toDate) /\ PassesCategories(t, categories)}

\* sort.Slice with less = Date.After over a slice filled in map order: every
\* order with non-increasing dates can come out
RECURSIVE SortedOrders(_)
SortedOrders(S) ==
    IF S = {} THEN {<<>>}
    ELSE LET newest == {t \in S : \A o \in S : ~After(o.Date, t.Date)}
         IN  UNION {{<<t>> \o rest : rest \in SortedOrders(S \ {t})} : t \in newest}

Min(a, b) == IF a < b THEN a ELSE b

\* Paginate with totalPages rounded down instead of math.Ceil
Paginate_RoundsDown(sorted, page, pageSize) ==
    LET transactionsAmount == Len(sorted)
        totalPages == transactionsAmount \div pageSize
        paginationStart == (page - 1) * pageSize
        paginationEnd == Min(paginationStart + pageSize, transactionsAmount)
    IN  [kind |-> "page", CurrentPage |-> page, TotalPages |-> totalPages,
         Data |-> IF paginationStart >= transactionsAmount THEN <<>>
                  ELSE SubSeq(sorted, paginationStart + 1, paginationEnd)]

\* lines 517-542: the page of a sorted list
Paginate(sorted, page, pageSize) ==
    LET transactionsAmount == Len(sorted)
        totalPages == (transactionsAmount + pageSize - 1) \div pageSize
        paginationStart == (page - 1) * pageSize
        paginationEnd == Min(paginationStart + pageSize, transactionsAmount)
    IN  [kind |-> "page", CurrentPage |-> page, TotalPages |-> totalPages,
         Data |-> IF paginationStart >= transactionsAmount THEN <<>>
                  ELSE SubSeq(sorted, paginationStart + 1, paginationEnd)]

\* the results GetTransactions can return once it holds userTransactions
GetTransactionsResults(userTransactions, categories, fromDate, toDate, page, pageSize) ==
    {Paginate(sorted, page, pageSize) :
        sorted \in SortedOrders(FilterTransactions(userTransactions, categories,
                                                   fromDate, toDate))}

\* the results GetAllTransactions can return once it holds userTransactions
GetAllTransactionsResults(userTransactions, fromDate, toDate) ==
    {[kind |-> "list", Data |-> sorted] :
        sorted \in SortedOrders(FilterTransactions(userTransactions, {},
                                                   fromDate, toDate))}

(***************************************************************************)
(* sync.RWMutex: a goroutine inside Lock() first becomes the one pending   *)
(* writer, which blocks every new RLock, then waits for the readers to     *)
(* leave.                                                                  *)
(***************************************************************************)
CanRLock == writer = NoProc

\* a Lock() that does not wait for the goroutine already inside Lock()
CanLock_AdmitsSecondWriter == TRUE

CanLock == writer = NoProc
\* a Lock() that does not wait for the readers to leave
CanEnter_IgnoresReaders == TRUE

\* Lock(), second half: the pending writer enters once no reader is left
CanEnter == readerCount = 0

\* ts.mux.Lock(), first half: the goroutine becomes the pending writer
Lock(p) ==
    /\ pc[p] = "lock"
    /\ CanLock
    /\ writer' = p
    /\ pc' = [pc EXCEPT ![p] = "pending"]
    /\ UNCHANGED <<now, transactions, readerCount, op, result, uuidCount, created,
                   fired, calc, env, nextRun,
                   userCategories, held, app>>

(***************************************************************************)
(* GetTransactions (lines 463-543) and GetAllTransactions (lines 545-581). *)
(***************************************************************************)
\* QueryLookup with the RUnlock of lines 470 and 554 moved out of the branch:
\* the first read lock is released whether or not the user has a collection
QueryLookup_ReleasesFirstRLock(p, o) ==
    /\ pc[p] = "idle"
    /\ CanRLock
    /\ LET exists == o.user \in DOMAIN transactions
       IN  /\ op' = [op EXCEPT ![p] = [o EXCEPT !.exists = exists]]
           /\ readerCount' = readerCount
           /\ pc' = [pc EXCEPT ![p] = IF exists THEN "rlock2" ELSE "lock"]
    /\ UNCHANGED <<now, transactions, writer, result, uuidCount, created, fired, calc, env, nextRun,
                   userCategories, held, app>>

\* lines 466-470 and 548-553: RLock, the lookup, and RUnlock when the user has
\* no collection
QueryLookup(p, o) ==
    /\ pc[p] = "idle"
    /\ CanRLock
    /\ LET exists == o.user \in DOMAIN transactions
       IN  /\ op' = [op EXCEPT ![p] = [o EXCEPT !.exists = exists]]
           /\ IF exists
              THEN /\ readerCount < MaxReaders
                   /\ readerCount' = readerCount + 1
                   /\ pc' = [pc EXCEPT ![p] = "rlock2"]
              ELSE /\ readerCount' = readerCount
                   /\ pc' = [pc EXCEPT ![p] = "lock"]
    /\ UNCHANGED <<now, transactions, writer, result, uuidCount, created, fired, calc, env, nextRun,
                   userCategories, held, app>>

GetTransactions(p, userID, categories, fromDate, toDate, page, pageSize) ==
    QueryLookup(p, [name |-> "GetTransactions", user |-> userID, exists |-> FALSE,
                    categories |-> categories, fromDate |-> fromDate,
                    toDate |-> toDate, page |-> page, pageSize |-> pageSize])

GetAllTransactions(p, userID, fromDate, toDate) ==
    QueryLookup(p, [name |-> "GetAllTransactions", user |-> userID, exists |-> FALSE,
                    fromDate |-> fromDate, toDate |-> toDate])

IsQuery(o) == o.name \in {"GetTransactions", "GetAllTransactions"}

\* what lines 472 and 555 store under the user's id
SeededCollection(old, t) == getInitialTransactions(t)

\* lines 471-473 and 554-556: Lock, the seeding, Unlock
Seed(p) ==
    /\ pc[p] = "pending"
    /\ IsQuery(op[p])
    /\ CanEnter
    /\ transactions' = Put(transactions, op[p].user,
                           SeededCollection(transactions, now))
    /\ writer' = NoProc
    /\ pc' = [pc EXCEPT ![p] = "rlock2"]
    /\ UNCHANGED <<now, readerCount, op, result, uuidCount, created, fired, calc, env, nextRun,
                   userCategories, held, app>>

\* the map the local variable userTransactions refers to after the lookup of
\* lines 468 and 551: the user's map, or nil when the lookup found none (the
\* variable is not assigned again after the seeding)
UserTransactionsOf(o) ==
    IF o.exists THEN transactions[o.user] ELSE EmptyMap

\* lines 476-542 and 559-580: the second RLock, filter, sort, page, and the
\* deferred RUnlock
QueryAnswer(p) ==
    /\ pc[p] = "rlock2"
    /\ CanRLock
    /\ LET o == op[p]
           answers ==
               IF o.name = "GetTransactions"
               THEN GetTransactionsResults(UserTransactionsOf(o), o.categories,
                                           o.fromDate, o.toDate, o.page, o.pageSize)
               ELSE GetAllTransactionsResults(UserTransactionsOf(o), o.fromDate,
                                              o.toDate)
       IN  \E r \in answers : result' = [result EXCEPT ![p] = r]
    /\ pc' = [pc EXCEPT ![p] = "done"]
    /\ UNCHANGED <<now, transactions, readerCount, writer, op, uuidCount, created,
                   fired, calc, env, nextRun,
                   userCategories, held, app>>

(***************************************************************************)
(* StatisticsService (statistics.go lines 16-174).  Amounts are integers.  *)
(***************************************************************************)
\* lines 28-32: the current month when neither date is given
StatisticsPeriod(fromDate, toDate, t) ==
    IF IsZero(fromDate) /\ IsZero(toDate)
    THEN LET first == Date(Year(t), Month(t), 1)
         IN  [fromDate |-> first, toDate |-> AddDate(first, 0, 1, -1)]
    ELSE [fromDate |-> fromDate, toDate |-> toDate]

\* the loop over a slice, from index i on, that adds up the Amount of the
\* elements whose index is in keep
RECURSIVE SumFrom(_, _, _)
SumFrom(list, i, keep) ==
    IF i > Len(list) THEN 0
    ELSE (IF i \in keep THEN list[i].Amount ELSE 0) + SumFrom(list, i + 1, keep)

\* the indices of the income transactions of a slice, and of the others
IncomeIn(list) == {k \in 1..Len(list) : list[k].Category = IncomeCategory}
ExpensesIn(list) == {k \in 1..Len(list) : list[k].Category # IncomeCategory}

\* calculateGeneralStatistics with the else branch adding to income too
calculateGeneralStatistics_AllIncome(list) ==
    LET income == SumFrom(list, 1, 1..Len(list))
        expenses == SumFrom(list, 1, {})
    IN  [Income |-> income, Expenses |-> expenses, Balance |-> income - expenses]

\* calculateGeneralStatistics (lines 62-80)
calculateGeneralStatistics(list) ==
    LET income == SumFrom(list, 1, IncomeIn(list))
        expenses == SumFrom(list, 1, ExpensesIn(list))
    IN  [Income |-> income, Expenses |-> expenses, Balance |-> income - expenses]

\* the loops of lines 88-93 and 140-145: the dates from currentDate while
\* it is not after toDate, a day apart
RECURSIVE PeriodDates(_, _)
PeriodDates(currentDate, toDate) ==
    IF After(currentDate, toDate) THEN <<>>
    ELSE <<FormatDate(currentDate)>> \o PeriodDates(AddDate(currentDate, 0, 0, 1), toDate)

\* lines 96-103: the transactions are added to or subtracted from the map
RECURSIVE AddBalanceChanges(_, _, _)
AddBalanceChanges(balanceChanges, list, i) ==
    IF i > Len(list) THEN balanceChanges
    ELSE LET t == list[i]
             dateStr == FormatDate(t.Date)
             old == IF dateStr \in DOMAIN balanceChanges
                    THEN balanceChanges[dateStr] ELSE 0
             new == IF t.Category = IncomeCategory
                    THEN old + t.Amount ELSE old - t.Amount
         IN  AddBalanceChanges(Put(balanceChanges, dateStr, new), list, i + 1)

\* calculateBalanceChangesByDate without lines 87-93: only the dates of the
\* transactions get a key
calculateBalanceChangesByDate_NoZeroDates(list, fromDate, toDate) ==
    AddBalanceChanges(EmptyMap, list, 1)

\* calculateBalanceChangesByDate (lines 83-105)
calculateBalanceChangesByDate(list, fromDate, toDate) ==
    LET dates == PeriodDates(fromDate, toDate)
        zeros == [d \in {dates[k] : k \in 1..Len(dates)} |-> 0]
    IN  AddBalanceChanges(zeros, list, 1)

\* calculateSpendingCurve (lines 108-174) once allExpenses is known
calculateSpendingCurve(list, allExpenses, fromDate, toDate) ==
    LET dates == PeriodDates(fromDate, toDate)
        entry(dateStr) ==
            LET onDate(l) == {k \in ExpensesIn(l) : FormatDate(l[k].Date) = dateStr}
                expensesOnDate == SumFrom(allExpenses, 1, onDate(allExpenses))
            IN  [AverageSpending |-> IF expensesOnDate > 0 THEN expensesOnDate ELSE 0,
                 CurrentSpending |-> SumFrom(list, 1, onDate(list)),
                 Date |-> dateStr]
    IN  [k \in 1..Len(dates) |-> entry(dates[k])]

\* GetStatistics, line 35: the first GetAllTransactions, for the period
GetStatistics(p, userID, fromDate, toDate) ==
    /\ op[p] = NoOp
    /\ LET period == StatisticsPeriod(fromDate, toDate, now)
       IN  QueryLookup(p, [name |-> "GetAllTransactions", user |-> userID,
                           exists |-> FALSE, fromDate |-> period.fromDate,
                           toDate |-> period.toDate, stage |-> 1])

\* lines 35-44: the list is back; the general statistics and the balance
\* changes are computed from it
StatisticsPeriodTaken(p) ==
    /\ pc[p] = "done"
    /\ op[p].name = "GetAllTransactions"
    /\ "stage" \in DOMAIN op[p]
    /\ op[p].stage = 1
    /\ op' = [op EXCEPT ![p] = [name |-> "GetStatistics", user |-> op[p].user,
                                 fromDate |-> op[p].fromDate, toDate |-> op[p].toDate,
                                 transactions |-> result[p].Data]]
    /\ result' = [result EXCEPT ![p] = NoResult]
    /\ pc' = [pc EXCEPT ![p] = "idle"]
    /\ UNCHANGED <<now, transactions, readerCount, writer, uuidCount, created,
                   fired, calc, env, nextRun, userCategories, held, app>>

\* calculateSpendingCurve, line 110: the second GetAllTransactions, for the
\* whole history
StatisticsHistory(p) ==
    /\ op[p].name = "GetStatistics"
    /\ QueryLookup(p, [name |-> "GetAllTransactions", user |-> op[p].user,
                       exists |-> FALSE, fromDate |-> ZeroTime, toDate |-> ZeroTime,
                       stage |-> 2, period |-> op[p]])

\* lines 117-173 and 52-58: the response
StatisticsAnswer(p) ==
    /\ pc[p] = "done"
    /\ op[p].name = "GetAllTransactions"
    /\ "stage" \in DOMAIN op[p]
    /\ op[p].stage = 2
    /\ LET o == op[p].period
       IN  /\ op' = [op EXCEPT ![p] = [name |-> "GetStatistics", user |-> o.user,
                                        fromDate |-> o.fromDate, toDate |-> o.toDate,
                                        returned |-> TRUE]]
           /\ result' = [result EXCEPT ![p] =
                 [kind |-> "statistics",
                  GeneralStatistics |-> calculateGeneralStatistics(o.transactions),
                  BalanceChangesByDate |->
                      calculateBalanceChangesByDate(o.transactions, o.fromDate, o.toDate),
                  SpendingCurveInfo |->
                      calculateSpendingCurve(o.transactions, result[p].Data,
                                             o.fromDate, o.toDate),
                  FromDate |-> FormatDate(o.fromDate),
                  ToDate |-> FormatDate(o.toDate)]]
    /\ UNCHANGED <<now, transactions, readerCount, writer, pc, uuidCount, created,
                   fired, calc, env, nextRun, userCategories, held, app>>

(***************************************************************************)
(* CreateTransaction (lines 583-632).                                      *)
(***************************************************************************)
\* lines 586-616: parse, validate, build the record
CreateTransaction(p, userID, req) ==
    /\ pc[p] = "idle"
    /\ LET date == ParseDate(req.Date)
           valid == date.ok /\ validateRepeatString(req.RepeatTime)
           transactionID == Uuids[uuidCount + 1]
           nextAppearDate ==
               IF req.RepeatTime # <<>>
               THEN calculateNextAppearDate(date.val, req.RepeatTime)
               ELSE ZeroTime
           transaction ==
               Transaction(transactionID, req.Amount, req.Title, req.Category,
                           date.val, nextAppearDate, req.RepeatTime)
       IN  IF valid
           THEN /\ uuidCount < env.maxIds
                /\ uuidCount' = uuidCount + 1
                /\ op' = [op EXCEPT ![p] = [name |-> "CreateTransaction",
                                             user |-> userID, req |-> req,
                                             transaction |-> transaction]]
                /\ pc' = [pc EXCEPT ![p] = "lock"]
                /\ result' = result
           ELSE /\ uuidCount' = uuidCount
                /\ op' = [op EXCEPT ![p] = [name |-> "CreateTransaction",
                                             user |-> userID, req |-> req]]
                /\ pc' = [pc EXCEPT ![p] = "done"]
                /\ result' = [result EXCEPT ![p] =
                                 [kind |-> "error", err |-> "bad request"]]
    /\ UNCHANGED <<now, transactions, readerCount, writer, created, fired, calc, env, nextRun,
                   userCategories, held, app>>

\* CreateBody without lines 622-624: a user with no collection gets an
\* empty one
CreateBody_SkipsSeeding(p) ==
    /\ pc[p] = "pending"
    /\ op[p].name = "CreateTransaction"
    /\ CanEnter
    /\ LET userID == op[p].user
           transaction == op[p].transaction
           collection == IF userID \in DOMAIN transactions
                         THEN transactions[userID]
                         ELSE EmptyMap
       IN  /\ transactions' = Put(transactions, userID,
                                  Put(collection, transaction.ID, transaction))
           /\ result' = [result EXCEPT ![p] = [kind |-> "created",
                                               ID |-> transaction.ID]]
           /\ created' = created \cup {<<userID, transaction.ID>>}
    /\ writer' = NoProc
    /\ pc' = [pc EXCEPT ![p] = "done"]
    /\ UNCHANGED <<now, readerCount, op, uuidCount, fired, calc, env, nextRun,
                   userCategories, held, app>>

\* lines 618-631: under the exclusive lock
CreateBody(p) ==
    /\ pc[p] = "pending"
    /\ op[p].name = "CreateTransaction"
    /\ CanEnter
    /\ LET userID == op[p].user
           transaction == op[p].transaction
           collection == IF userID \in DOMAIN transactions
                         THEN transactions[userID]
                         ELSE getInitialTransactions(now)
       IN  /\ transactions' = Put(transactions, userID,
                                  Put(collection, transaction.ID, transaction))
           /\ result' = [result EXCEPT ![p] = [kind |-> "created",
                                               ID |-> transaction.ID]]
           /\ created' = created \cup {<<userID, transaction.ID>>}
    /\ writer' = NoProc
    /\ pc' = [pc EXCEPT ![p] = "done"]
    /\ UNCHANGED <<now, readerCount, op, uuidCount, fired, calc, env, nextRun,
                   userCategories, held, app>>

(***************************************************************************)
(* DeleteTransaction (lines 634-647).                                      *)
(***************************************************************************)
DeleteTransaction(p, userID, id) ==
    /\ pc[p] = "idle"
    /\ op' = [op EXCEPT ![p] = [name |-> "DeleteTransaction", user |-> userID,
                                 id |-> id]]
    /\ pc' = [pc EXCEPT ![p] = "lock"]
    /\ UNCHANGED <<now, transactions, readerCount, writer, result, uuidCount,
                   created, fired, calc, env, nextRun,
                   userCategories, held, app>>

\* DeleteBody that deletes the id from the collection of every user
DeleteBody_AllUsers(p) ==
    /\ pc[p] = "pending"
    /\ op[p].name = "DeleteTransaction"
    /\ CanEnter
    /\ transactions' = [u \in DOMAIN transactions |-> Remove(transactions[u], op[p].id)]
    /\ created' = created \ {<<op[p].user, op[p].id>>}
    /\ fired' = fired \ {<<op[p].user, op[p].id>>}
    /\ result' = [result EXCEPT ![p] = [kind |-> "ok"]]
    /\ writer' = NoProc
    /\ pc' = [pc EXCEPT ![p] = "done"]
    /\ UNCHANGED <<now, readerCount, op, uuidCount, calc, env, nextRun,
                   userCategories, held, app>>

\* lines 637-646: under the exclusive lock the id is deleted from the user's map
DeleteBody(p) ==
    /\ pc[p] = "pending"
    /\ op[p].name = "DeleteTransaction"
    /\ CanEnter
    /\ LET userID == op[p].user
       IN  transactions' =
               IF userID \in DOMAIN transactions
               THEN Put(transactions, userID, Remove(transactions[userID], op[p].id))
               ELSE transactions
    /\ created' = created \ {<<op[p].user, op[p].id>>}
    /\ fired' = fired \ {<<op[p].user, op[p].id>>}
    /\ result' = [result EXCEPT ![p] = [kind |-> "ok"]]
    /\ writer' = NoProc
    /\ pc' = [pc EXCEPT ![p] = "done"]
    /\ UNCHANGED <<now, readerCount, op, uuidCount, calc, env, nextRun,
                   userCategories, held, app>>

(***************************************************************************)
(* ProcessAllRecurringTransactions (lines 778-823).                        *)
(***************************************************************************)
\* IsDue without the comparison of the day: every transaction with a repeat
\* spec and a next-appear-date is taken
IsDue_IgnoresDay(transaction, today) ==
    /\ ~IsZero(transaction.NextAppearDate)
    /\ transaction.RepeatTime # <<>>

\* the test of lines 789-791
IsDue(transaction, today) ==
    /\ ~IsZero(transaction.NextAppearDate)
    /\ Truncate24h(transaction.NextAppearDate) = today
    /\ transaction.RepeatTime # <<>>

\* NewTransaction without lines 809-812: the copy has no next-appear-date
NewTransaction_WithoutNextAppearDate(originalTransaction, id, today) ==
    Transaction(id, originalTransaction.Amount, originalTransaction.Title,
                originalTransaction.Category, today, ZeroTime,
                originalTransaction.RepeatTime)

\* lines 799-812: the copy spawned from originalTransaction
NewTransaction(originalTransaction, id, today) ==
    Transaction(id, originalTransaction.Amount, originalTransaction.Title,
                originalTransaction.Category, today,
                calculateNextAppearDate(today, originalTransaction.RepeatTime),
                originalTransaction.RepeatTime)

\* ClearedOriginal without the assignment of line 817: the original keeps
\* its repeat spec
ClearedOriginal_KeepsSpec(originalTransaction) == originalTransaction

\* lines 817-818: what is stored back under the original's id
ClearedOriginal(originalTransaction) ==
    [originalTransaction EXCEPT !.RepeatTime = <<>>]

\* the <<user, id>> of the transactions the run will process
DueTransactions(store, today) ==
    {ui \in UNION {{<<u, id>> : id \in DOMAIN store[u]} : u \in DOMAIN store} :
        IsDue(store[ui[1]][ui[2]], today)}

\* lines 785-820 for one user; ids gives each due transaction its uuid.New()
ProcessUser(userTransactions, u, due, ids, today) ==
    LET dueIds == {id \in DOMAIN userTransactions : <<u, id>> \in due}
        newIds == {ids[<<u, id>>] : id \in dueIds}
        source(k) == CHOOSE id \in dueIds : ids[<<u, id>>] = k
    IN  [k \in DOMAIN userTransactions \cup newIds |->
            IF k \in newIds THEN NewTransaction(userTransactions[source(k)], k, today)
            ELSE IF k \in dueIds THEN ClearedOriginal(userTransactions[k])
            ELSE userTransactions[k]]

\* line 779: today is read before the lock is taken.  The recurrence task
\* calls the function from one goroutine, so no two calls overlap.
ProcessAllRecurringTransactions(p) ==
    /\ pc[p] = "idle"
    /\ \A q \in Procs : op[q].name # "ProcessAllRecurringTransactions"
    /\ uuidCount + Cardinality(DueTransactions(transactions, Truncate24h(now)))
           <= env.maxIds
    /\ op' = [op EXCEPT ![p] = [name |-> "ProcessAllRecurringTransactions",
                                 today |-> Truncate24h(now)]]
    /\ pc' = [pc EXCEPT ![p] = "lock"]
    /\ UNCHANGED <<now, transactions, readerCount, writer, result, uuidCount,
                   created, fired, calc, env, userCategories, held, app>>

\* lines 781-822: under the exclusive lock.  The maps are walked in any order,
\* so the uuids fall on the due transactions in any order.
ProcessBody(p) ==
    /\ pc[p] = "pending"
    /\ op[p].name = "ProcessAllRecurringTransactions"
    /\ CanEnter
    /\ LET today == op[p].today
           due == DueTransactions(transactions, today)
           fresh == {Uuids[uuidCount + i] : i \in 1..Cardinality(due)}
       IN  /\ uuidCount + Cardinality(due) <= env.maxIds
           /\ uuidCount' = uuidCount + Cardinality(due)
           /\ \E ids \in {f \in [due -> fresh] :
                             \A a, b \in due : a # b => f[a] # f[b]} :
                 transactions' =
                     [u \in DOMAIN transactions |->
                         ProcessUser(transactions[u], u, due, ids, today)]
           /\ fired' = fired \cup due
    /\ result' = [result EXCEPT ![p] = [kind |-> "ok"]]
    /\ writer' = NoProc
    /\ pc' = [pc EXCEPT ![p] = "done"]
    /\ UNCHANGED <<now, readerCount, op, created, calc, env, nextRun,
                   userCategories, held, app>>

(***************************************************************************)
(* GetBackupData (lines 747-770).                                          *)
(***************************************************************************)
\* lines 756-763: the copy of one record; RepeatTime is not among the fields
\* copied, so it is the empty string in the copy
BackupTransaction(transaction) ==
    Transaction(transaction.ID, transaction.Amount, transaction.Title,
                transaction.Category, transaction.Date, transaction.NextAppearDate,
                <<>>)

BackupData(store) ==
    [userID \in DOMAIN store |->
        [transactionID \in DOMAIN store[userID] |->
            BackupTransaction(store[userID][transactionID])]]

\* RLock, copy, RUnlock
GetBackupData(p) ==
    /\ pc[p] = "idle"
    /\ CanRLock
    /\ op' = [op EXCEPT ![p] = [name |-> "GetBackupData"]]
    /\ result' = [result EXCEPT ![p] = [kind |-> "backup",
                                        data |-> BackupData(transactions)]]
    /\ pc' = [pc EXCEPT ![p] = "done"]
    /\ UNCHANGED <<now, transactions, readerCount, writer, uuidCount, created,
                   fired, calc, env, nextRun,
                   userCategories, held, app>>

\* GetBackupData as the goroutine runs it: RLock (line 748), the two range
\* loops (lines 753-766) one entry at a time, RUnlock at the return (line 749)
BackupRLock(p) ==
    /\ pc[p] = "idle"
    /\ CanRLock
    /\ readerCount < MaxReaders
    /\ readerCount' = readerCount + 1
    /\ op' = [op EXCEPT ![p] = [name |-> "GetBackupData"]]
    /\ result' = [result EXCEPT ![p] = [kind |-> "backup", data |-> EmptyMap]]
    /\ pc' = [pc EXCEPT ![p] = "copy"]
    /\ UNCHANGED <<now, transactions, writer, uuidCount, created, fired, calc,
                   env, nextRun, userCategories, held, app>>

\* the entries of the store the loops have not reached
NotCopied(store, data) ==
    {<<u, u>> : u \in DOMAIN store \ DOMAIN data}
    \cup UNION {{<<u, id>> : id \in DOMAIN store[u] \ DOMAIN data[u]} :
                    u \in DOMAIN store \cap DOMAIN data}

\* one iteration: the map of the next user is made (line 754), or the next
\* transaction of a user is copied into it (lines 756-764)
BackupCopy(p) ==
    /\ pc[p] = "copy"
    /\ \E e \in NotCopied(transactions, result[p].data) :
          LET u == e[1]
              data == result[p].data
          IN  result' = [result EXCEPT ![p].data =
                  IF u \notin DOMAIN data THEN Put(data, u, EmptyMap)
                  ELSE Put(data, u, Put(data[u], e[2],
                                        BackupTransaction(transactions[u][e[2]])))]
    /\ UNCHANGED <<now, transactions, readerCount, writer, pc, op, uuidCount,
                   created, fired, calc, env, nextRun, userCategories, held, app>>

\* the loops are over: return backupData, RUnlock
BackupRUnlock(p) ==
    /\ pc[p] = "copy"
    /\ NotCopied(transactions, result[p].data) = {}
    /\ readerCount' = readerCount - 1
    /\ pc' = [pc EXCEPT ![p] = "done"]
    /\ UNCHANGED <<now, transactions, writer, op, result, uuidCount, created,
                   fired, calc, env, nextRun, userCategories, held, app>>

(***************************************************************************)
(* CategoriesService (part_006).                                           *)
(***************************************************************************)
\* cs.baseCategories (lines 28-38), transliterated
baseCategories ==
    << <<"E","d","a">>, <<"T","r","a","n","s","p","o","r","t">>,
       <<"R","a","z","v","l","e","c","h","e","n","i","y","a">>,
       <<"Z","d","o","r","o","v","e">>, <<"O","d","e","z","h","d","a">>,
       <<"D","o","h","o","d","y">>,
       <<"O","b","r","a","z","o","v","a","n","i","e">>,
       <<"P","o","d","a","r","k","i">>, <<"P","r","o","c","h","e","e">> >>

\* strings.EqualFold
EqualFold(a, b) == ToLower(a) = ToLower(b)

\* CreateCategory (lines 81-115); a category is its Name.  The blank name is
\* refused before the lock is taken; under the lock the user's list is
\* created when missing (lines 93-95), then the name is compared with the
\* user's and the base categories, then appended.
CreateCategory(p, userID, name) ==
    /\ pc[p] = "idle"
    /\ LET blank == TrimSpace(name) = <<>>
           existing == IF userID \in DOMAIN userCategories
                       THEN userCategories[userID]
                       ELSE <<>>
           duplicate == \E i \in 1..Len(existing) : EqualFold(existing[i], name)
           base == \E i \in 1..Len(baseCategories) : EqualFold(baseCategories[i], name)
       IN  /\ userCategories' =
                  IF blank THEN userCategories
                  ELSE IF duplicate \/ base THEN Put(userCategories, userID, existing)
                  ELSE Put(userCategories, userID, Append(existing, name))
           /\ result' = [result EXCEPT ![p] =
                            IF blank \/ duplicate \/ base
                            THEN [kind |-> "error", err |-> "bad request"]
                            ELSE [kind |-> "ok"]]
    /\ op' = [op EXCEPT ![p] = [name |-> "CreateCategory", user |-> userID,
                                 category |-> name]]
    /\ pc' = [pc EXCEPT ![p] = "done"]
    /\ UNCHANGED <<now, transactions, readerCount, writer, uuidCount, created,
                   fired, calc, env, nextRun, held, app>>

\* strings.HasPrefix
HasPrefix(str, prefix) ==
    Len(prefix) <= Len(str) /\ SubSeq(str, 1, Len(prefix)) = prefix

\* the elements of a list that pass keep, in the order of the list
RECURSIVE FilterList(_, _)
FilterList(list, keep) ==
    IF list = <<>> THEN <<>>
    ELSE (IF Head(list) \in keep THEN <<Head(list)>> ELSE <<>>)
         \o FilterList(Tail(list), keep)

\* GetCategories (part_006 lines 43-79): the base categories followed by the
\* user's, those whose lower-cased name starts with the lower-cased filter
\* when a filter is given
GetCategories(p, userID, nameFilter) ==
    /\ pc[p] = "idle"
    /\ LET own == IF userID \in DOMAIN userCategories
                  THEN userCategories[userID] ELSE <<>>
           allCategories == baseCategories \o own
           passing == {c \in {allCategories[i] : i \in 1..Len(allCategories)} :
                          HasPrefix(ToLower(c), ToLower(nameFilter))}
       IN  result' = [result EXCEPT ![p] =
               [kind |-> "categories",
                Data |-> IF nameFilter # <<>> THEN FilterList(allCategories, passing)
                         ELSE allCategories]]
    /\ op' = [op EXCEPT ![p] = [name |-> "GetCategories", user |-> userID,
                                 nameFilter |-> nameFilter]]
    /\ pc' = [pc EXCEPT ![p] = "done"]
    /\ UNCHANGED <<now, transactions, readerCount, writer, uuidCount, created,
                   fired, calc, env, nextRun, userCategories, held, app>>

\* CategoriesService.GetBackupData (lines 118-135): the contents of the
\* returned value
CategoriesBackupData(store) ==
    [userID \in DOMAIN store |->
        [i \in 1..Len(store[userID]) |-> store[userID][i]]]

(***************************************************************************)
(* The holder of the values GetBackupData returns (backupObject, backup.go *)
(* lines 124-152).                                                         *)
(***************************************************************************)
\* the users whose list in the value returned by CategoriesService.
\* GetBackupData is the store's own: none, line 125 makes each list
SharedCategoryLists(store) == {}

\* TransactionsService.GetBackupData with backupData[userID] = transactions:
\* the returned maps are the store's
SharedTransactionMaps_AliasStore(store) == DOMAIN store

\* the users whose map in the value returned by TransactionsService.
\* GetBackupData is the store's own: none, line 754 makes each map
SharedTransactionMaps(store) == {}

\* data := backupable.GetBackupData() for the transactions service
BackupTransactions ==
    /\ CanRLock
    /\ held' = [held EXCEPT !.transactions =
                   [taken |-> TRUE, shared |-> SharedTransactionMaps(transactions),
                    data |-> BackupData(transactions)]]
    /\ UNCHANGED <<now, transactions, readerCount, writer, pc, op, result,
                   uuidCount, created, fired, calc, env, nextRun, userCategories, app>>

\* data := backupable.GetBackupData() for the categories service
BackupCategories ==
    /\ held' = [held EXCEPT !.categories =
                   [taken |-> TRUE, shared |-> SharedCategoryLists(userCategories),
                    data |-> CategoriesBackupData(userCategories)]]
    /\ UNCHANGED <<now, transactions, readerCount, writer, pc, op, result,
                   uuidCount, created, fired, calc, env, nextRun, userCategories, app>>

\* what the holder reads through the returned values: a map or list that is
\* the store's own shows the store's contents
HeldTransactions ==
    [u \in DOMAIN held.transactions.data |->
        IF u \in held.transactions.shared THEN transactions[u]
        ELSE held.transactions.data[u]]
HeldCategories ==
    [u \in DOMAIN held.categories.data |->
        IF u \in held.categories.shared THEN userCategories[u]
        ELSE held.categories.data[u]]

\* most writes the holder makes to the returned values
MaxHolderWrites == 1

\* the holder deletes an entry of a returned map: delete(data[u], id)
HolderDeletes(u, id) ==
    /\ held.transactions.taken
    /\ held.writes < MaxHolderWrites
    /\ u \in DOMAIN HeldTransactions
    /\ id \in DOMAIN HeldTransactions[u]
    /\ IF u \in held.transactions.shared
       THEN /\ transactions' = Put(transactions, u, Remove(transactions[u], id))
            /\ held' = [held EXCEPT !.writes = @ + 1]
       ELSE /\ transactions' = transactions
            /\ held' = [held EXCEPT !.writes = @ + 1,
                                    !.transactions.data[u] = Remove(@, id)]
    /\ UNCHANGED <<now, readerCount, writer, pc, op, result, uuidCount, created,
                   fired, calc, env, nextRun, userCategories, app>>

\* the holder overwrites an element of a returned list: data[u][i].Name = name
HolderRenames(u, i, name) ==
    /\ held.categories.taken
    /\ held.writes < MaxHolderWrites
    /\ u \in DOMAIN HeldCategories
    /\ i \in 1..Len(HeldCategories[u])
    /\ HeldCategories[u][i] # name
    /\ IF u \in held.categories.shared
       THEN /\ userCategories' = [userCategories EXCEPT ![u][i] = name]
            /\ held' = [held EXCEPT !.writes = @ + 1]
       ELSE /\ userCategories' = userCategories
            /\ held' = [held EXCEPT !.writes = @ + 1,
                                    !.categories.data[u][i] = name]
    /\ UNCHANGED <<now, transactions, readerCount, writer, pc, op, result,
                   uuidCount, created, fired, calc, env, nextRun, app>>

(***************************************************************************)
(* The caller takes the result; the clock advances.                        *)
(***************************************************************************)
Return(p) ==
    /\ pc[p] = "done"
    /\ pc' = [pc EXCEPT ![p] = "idle"]
    /\ op' = [op EXCEPT ![p] = NoOp]
    /\ result' = [result EXCEPT ![p] = NoResult]
    /\ UNCHANGED <<now, transactions, readerCount, writer, uuidCount, created,
                   fired, calc, env, nextRun,
                   userCategories, held, app>>

TickTo(limit) ==
    /\ now < limit
    /\ now' = now + 1
    /\ UNCHANGED <<transactions, readerCount, writer, pc, op, result, uuidCount,
                   created, fired, calc, env, nextRun,
                   userCategories, held, app>>

(***************************************************************************)
(* The background tasks: RecurringTransactionsService.Start (statistics.go *)
(* lines 881-907) and BackupService.Start (backup.go lines 51-76), with    *)
(* PerformBackup (lines 84-121) and backupObject (lines 124-152).          *)
(***************************************************************************)
storeVars == <<now, transactions, readerCount, writer, pc, op, result, uuidCount,
               created, fired, calc, env, nextRun, userCategories, held>>

\* ticks a ticker delivers in one behaviour
MaxTaskTicks == 1

\* the Backupables in the order initServices registers them
\* (application.go lines 144-145)
Backupables == <<"transactions", "categories">>

\* cancel() of the context, or the signal that cancels it
CancelContext ==
    /\ ~app.ctxDone
    /\ app' = [app EXCEPT !.ctxDone = TRUE]
    /\ UNCHANGED storeVars

\* Stop(): close(stopChan)
StopTask(t) ==
    /\ t \notin app.stopChan
    /\ app' = [app EXCEPT !.stopChan = @ \cup {t}]
    /\ UNCHANGED storeVars

\* PerformBackup is entered by caller c
EnterBackup(a, c) ==
    [a EXCEPT !.backup = [pc |-> "begin", caller |-> c, i |-> 0,
                          run |-> a.backup.run + 1, failed |-> FALSE]]

\* the task enters a run: the recurrence task calls
\* processRecurringTransactions, the backup task PerformBackup
EnterRun(a, t) ==
    LET b == [a EXCEPT !.task[t].pc = "run", !.task[t].runs = @ + 1]
    IN  IF t = "backup" THEN EnterBackup(b, "task") ELSE b

\* Start up to the first run.  The recurrence task makes its ticker before
\* the run (line 885), the backup task after it (line 59).
TaskStart(t) ==
    /\ app.task[t].pc = "off"
    /\ app' = EnterRun([app EXCEPT !.task[t].ticker = (t = "recurrence")], t)
    /\ UNCHANGED storeVars

\* 24 hours have passed: the ticker sends on its channel, which holds one
\* value; Start's deferred ticker.Stop() ends the ticks.  A goroutine does
\* not stay for a day in a select that has a case ready.
TickerFires(t) ==
    /\ app.task[t].ticker
    /\ app.task[t].pc # "exited"
    /\ ~(app.task[t].pc = "select" /\ (app.ctxDone \/ t \in app.stopChan))
    /\ ~app.task[t].tick
    /\ app.ticks < MaxTaskTicks
    /\ app' = [app EXCEPT !.task[t].tick = TRUE, !.ticks = @ + 1]
    /\ UNCHANGED storeVars

\* select: case <-ticker.C.  select takes any of the cases that are ready.
TaskSelectTick(t) ==
    /\ app.task[t].pc = "select"
    /\ app.task[t].tick
    /\ app' = EnterRun([app EXCEPT !.task[t].tick = FALSE], t)
    /\ UNCHANGED storeVars

\* select: case <-stopChan
TaskSelectStop(t) ==
    /\ app.task[t].pc = "select"
    /\ t \in app.stopChan
    /\ app' = [app EXCEPT !.task[t].pc = "exited"]
    /\ UNCHANGED storeVars

\* select: case <-ctx.Done()
TaskSelectCtx(t) ==
    /\ app.task[t].pc = "select"
    /\ app.ctxDone
    /\ app' = [app EXCEPT !.task[t].pc = "exited"]
    /\ UNCHANGED storeVars

\* the goroutine takes the value its call into the store returned
TakeResult(p) ==
    /\ pc' = [pc EXCEPT ![p] = "idle"]
    /\ op' = [op EXCEPT ![p] = NoOp]
    /\ result' = [result EXCEPT ![p] = NoResult]
    /\ UNCHANGED <<now, transactions, readerCount, writer, uuidCount, created,
                   fired, calc, env, nextRun, userCategories, held>>

\* processRecurringTransactions (lines 915-924) calls
\* ProcessAllRecurringTransactions
RecurrenceCall ==
    /\ app.task["recurrence"].pc = "run"
    /\ ProcessAllRecurringTransactions(TaskProc("recurrence"))
    /\ UNCHANGED nextRun

\* ... and returns into the loop of Start
RecurrenceRunDone ==
    /\ app.task["recurrence"].pc = "run"
    /\ pc[TaskProc("recurrence")] = "done"
    /\ app' = [app EXCEPT !.task["recurrence"].pc = "select"]
    /\ TakeResult(TaskProc("recurrence"))

\* the goroutine that runs PerformBackup calls GetBackupData as
BackupProc == TaskProc("backup")

\* PerformBackup lines 85-108: the registered Backupables are copied and the
\* two directories made; a directory that cannot be made ends the call with
\* an error
PerformBackupDirs ==
    /\ app.backup.pc = "begin"
    /\ \E made \in BOOLEAN :
          app' = [app EXCEPT !.backup.pc = IF made THEN "object" ELSE "end",
                             !.backup.failed = ~made,
                             !.backup.i = 1]
    /\ UNCHANGED storeVars

\* NextBackupable with `return err` in place of line 113: the first failure
\* ends PerformBackup
NextBackupable_ReturnsOnError(a, entry) ==
    [a EXCEPT !.log = @ \cup {entry},
              !.backup.i = @ + 1,
              !.backup.failed = ~entry.written,
              !.backup.pc = IF a.backup.i + 1 > Len(Backupables) \/ ~entry.written
                            THEN "end" ELSE "object"]

\* backupObject returns and the loop of lines 111-117 goes on: an error is
\* logged (line 113) and the next Backupable is taken
NextBackupable(a, entry) ==
    [a EXCEPT !.log = @ \cup {entry},
              !.backup.i = @ + 1,
              !.backup.pc = IF a.backup.i + 1 > Len(Backupables)
                            THEN "end" ELSE "object"]

\* what backupObject leaves behind: the file written, or the failure logged
BackupEntry(a, written, data) ==
    [run |-> a.backup.run, name |-> Backupables[a.backup.i], written |-> written,
     data |-> IF written THEN data ELSE EmptyMap]

\* backupObject of the transactions service, line 130: GetBackupData
BackupObjectCall ==
    /\ app.backup.pc = "object"
    /\ Backupables[app.backup.i] = "transactions"
    /\ BackupRLock(BackupProc)

\* backupObject of the transactions service, lines 131-151: the data is
\* serialized and written, or one of the two fails
BackupObjectWrite ==
    /\ app.backup.pc = "object"
    /\ Backupables[app.backup.i] = "transactions"
    /\ pc[BackupProc] = "done"
    /\ \E written \in BOOLEAN :
          app' = NextBackupable(app, BackupEntry(app, written,
                                                 result[BackupProc].data))
    /\ TakeResult(BackupProc)

\* backupObject of the categories service: GetBackupData under the
\* service's own lock, then serialized and written, or one of the two fails
BackupObjectCategories ==
    /\ app.backup.pc = "object"
    /\ Backupables[app.backup.i] = "categories"
    /\ \E written \in BOOLEAN :
          app' = NextBackupable(app, BackupEntry(app, written,
                                                 CategoriesBackupData(userCategories)))
    /\ UNCHANGED storeVars

\* PerformBackup returns into the loop of BackupService.Start, which logs an
\* error (lines 55-57, 65-67) and makes the ticker after the first run
BackupRunDone ==
    /\ app.backup.pc = "end"
    /\ app.backup.caller = "task"
    /\ app' = [app EXCEPT !.backup.pc = "off",
                          !.task["backup"].pc = "select",
                          !.task["backup"].ticker = TRUE]
    /\ UNCHANGED storeVars

(***************************************************************************)
(* The application: main (main.go lines 14-30), Application.Start and      *)
(* HandleGracefulShutdown (application.go lines 38-97), and the two        *)
(* goroutines of runServer (runner.go lines 28-71).                        *)
(***************************************************************************)
\* the goroutine that serves the requests
Handler == "p1"

\* the process runs: main is between Start and its return
Alive == app.main \notin {"new", "ended"}

\* Application.Start: config, services, router; runServer starts the Serve
\* goroutine and the goroutine that waits for the context; a.wg.Go starts
\* the backup task; ready.  Any of the first steps can fail, and main then
\* ends the process (log.Fatalf).
AppStart ==
    /\ app.main = "new"
    /\ \E started \in BOOLEAN :
          app' = IF started
                 THEN [app EXCEPT !.main = "started", !.ready = TRUE,
                                  !.serve = "serving", !.shut = "waiting"]
                 ELSE [app EXCEPT !.main = "ended"]
    /\ UNCHANGED storeVars

\* the goroutine a.wg.Go started calls backupService.Start
AppBackupStart == Alive /\ TaskStart("backup")

\* HandleGracefulShutdown lines 66-79: the reader of errChan is started and
\* main waits for the context
AppHandleShutdown ==
    /\ app.main = "started"
    /\ app' = [app EXCEPT !.main = "waiting"]
    /\ UNCHANGED storeVars

\* <-ctx.Done() returns (line 79); a.wg.Wait() (line 82)
AppCtxDone ==
    /\ app.main = "waiting"
    /\ app.ctxDone
    /\ app' = [app EXCEPT !.main = "wgwait"]
    /\ UNCHANGED storeVars

\* a.wg.Wait() returns when the two goroutines of runServer and the backup
\* task have returned; main calls the final PerformBackup (line 86)
AppWgDone ==
    /\ app.main = "wgwait"
    /\ app.serve = "exited"
    /\ app.shut = "exited"
    /\ app.task["backup"].pc = "exited"
    /\ app' = EnterBackup([app EXCEPT !.main = "final"], "final")
    /\ UNCHANGED storeVars

\* the final PerformBackup has returned (lines 86-90); errChan is closed and
\* main returns: the process ends
AppFinalDone ==
    /\ app.main = "final"
    /\ app.backup.pc = "end"
    /\ app' = [app EXCEPT !.main = "ended", !.backup.pc = "off",
                          !.returned = app.appErr]
    /\ UNCHANGED storeVars

\* server.Serve returns an error other than ErrServerClosed: the goroutine
\* sends it on errChan (runner.go lines 46-50)
ServeFails ==
    /\ Alive
    /\ app.serve = "serving"
    /\ app' = [app EXCEPT !.serve = "sending"]
    /\ UNCHANGED storeVars

\* the reader of errChan (application.go lines 71-77) takes an error,
\* cancels the context and keeps the error in appErr; the sender returns
ErrReceived ==
    /\ app.main \in {"waiting", "wgwait", "final"}
    /\ \E g \in {"serve", "shut"} :
          /\ app[g] = "sending"
          /\ app' = [app EXCEPT ![g] = "exited", !.ctxDone = TRUE,
                                !.appErr = g]
    /\ UNCHANGED storeVars

\* runner.go lines 58-65: the context is done, server.Shutdown is called;
\* Serve returns ErrServerClosed at once and no new request is taken
ShutdownBegin ==
    /\ Alive
    /\ app.shut = "waiting"
    /\ app.ctxDone
    /\ app' = [app EXCEPT !.shut = "shutdown",
                          !.serve = IF @ = "serving" THEN "exited" ELSE @]
    /\ UNCHANGED storeVars

\* server.Shutdown returns nil: no request is being served
ShutdownDone ==
    /\ Alive
    /\ app.shut = "shutdown"
    /\ pc[Handler] = "idle"
    /\ app' = [app EXCEPT !.shut = "exited"]
    /\ UNCHANGED storeVars

\* server.Shutdown returns the error of its context after the 5 seconds of
\* line 60 while a request is still being served; the error goes to errChan
ShutdownTimeout ==
    /\ Alive
    /\ app.shut = "shutdown"
    /\ pc[Handler] # "idle"
    /\ app' = [app EXCEPT !.shut = "sending"]
    /\ UNCHANGED storeVars

(***************************************************************************)
(* The requests of a behaviour.                                            *)
(***************************************************************************)
CategoryFilters == {{}, {FoodCategory}}
FromDates == {ZeroTime}
ToDates == {ZeroTime}
Pages == {1, 2}
PageSizes == {2}

CreateDates == {FormatDate(StartNow), <<"2","0","2","5","-","0","2","-","3","0">>}
CreateRepeatTimes == {<<>>, Itoa(30), Str("xyz")}
CreateRequests ==
    [Amount : {50}, Title : {"rent"}, Category : {FoodCategory},
     Date : CreateDates, RepeatTime : CreateRepeatTimes]

DeleteIds == {Uuids[1], DemoSalaryId}

DoGetTransactions ==
    \E p \in env.procs, u \in env.users, c \in CategoryFilters, f \in FromDates,
       t \in ToDates, page \in Pages, size \in PageSizes :
        GetTransactions(p, u, c, f, t, page, size)
DoGetAllTransactions ==
    \E p \in env.procs, u \in env.users, f \in FromDates, t \in ToDates :
        GetAllTransactions(p, u, f, t)
DoCreateTransaction ==
    \E p \in env.procs, u \in env.users, req \in CreateRequests : CreateTransaction(p, u, req)
DoDeleteTransaction ==
    \E p \in env.procs, u \in env.users, id \in DeleteIds : DeleteTransaction(p, u, id)
DoProcess ==
    /\ \E p \in env.procs : ProcessAllRecurringTransactions(p)
    /\ UNCHANGED nextRun
DoGetBackupData == \E p \in env.procs : GetBackupData(p)
DoLock == \E p \in env.procs : Lock(p)
DoSeed == \E p \in env.procs : Seed(p)
DoQueryAnswer == \E p \in env.procs : QueryAnswer(p)
DoCreateBody == \E p \in env.procs : CreateBody(p)
DoDeleteBody == \E p \in env.procs : DeleteBody(p)
DoProcessBody == \E p \in env.procs : ProcessBody(p)
DoReturn == \E p \in env.procs : Return(p)

Tick == TickTo(StartNow + MaxTicks)

Next ==
    \/ DoGetTransactions
    \/ DoGetAllTransactions
    \/ DoCreateTransaction
    \/ DoDeleteTransaction
    \/ DoProcess
    \/ DoGetBackupData
    \/ DoLock
    \/ DoSeed
    \/ DoQueryAnswer
    \/ DoCreateBody
    \/ DoDeleteBody
    \/ DoProcessBody
    \/ DoReturn
    \/ Tick

Spec == Init /\ [][Next]_vars

SpecSeq == InitSeq /\ [][Next]_vars

\* The Go scheduler runs every goroutine that can run: a call that has been
\* started and whose next step is possible takes it.  Starting a call is up
\* to the clients and is not forced.
Fairness ==
    /\ WF_vars(DoLock)
    /\ WF_vars(DoSeed)
    /\ WF_vars(DoQueryAnswer)
    /\ WF_vars(DoCreateBody)
    /\ WF_vars(DoDeleteBody)
    /\ WF_vars(DoProcessBody)
    /\ WF_vars(DoReturn)

\* one client and one user, with a single fresh id to hand out
InitFair ==
    /\ InitStore({"p1"}, {"u1"}, 1, NoData)
    /\ calc = NoCalc

SpecFair == InitFair /\ [][Next]_vars /\ Fairness

(***************************************************************************)
(* The backup task next to the requests: one client, one user, and the     *)
(* holder of the returned values.                                          *)
(***************************************************************************)
CategoryNames ==
    {<<"p","e","t","s">>, <<"P","e","t","s">>, <<"e","d","a">>, <<" ">>}

InitBackup ==
    /\ InitStore({"p1"}, {"u1"}, 1, NoData)
    /\ calc = NoCalc

DoCreateCategory ==
    \E p \in env.procs, u \in env.users, name \in CategoryNames :
        CreateCategory(p, u, name)

DoHolderDeletes ==
    \E u \in env.users, id \in {DemoSalaryId, Uuids[1]} : HolderDeletes(u, id)

DoHolderRenames ==
    \E u \in env.users, i \in 1..2 : HolderRenames(u, i, <<"x">>)

NextBackup ==
    \/ DoCreateTransaction
    \/ DoDeleteTransaction
    \/ DoProcess
    \/ DoGetAllTransactions
    \/ DoLock
    \/ DoSeed
    \/ DoQueryAnswer
    \/ DoCreateBody
    \/ DoDeleteBody
    \/ DoProcessBody
    \/ DoReturn
    \/ DoCreateCategory
    \/ BackupTransactions
    \/ BackupCategories
    \/ DoHolderDeletes
    \/ DoHolderRenames

SpecBackup == InitBackup /\ [][NextBackup]_vars

(***************************************************************************)
(* GetBackupData entry by entry while another goroutine serves requests    *)
(* and runs the recurrence task, on a store loaded with two users.         *)
(***************************************************************************)
Requester == "p1"
Copier == "p2"

InitSnapshot ==
    /\ InitStore(Procs, Users, MaxIds, LoadedData)
    /\ calc = NoCalc

SnapshotCreate ==
    \E u \in env.users, req \in CreateRequests : CreateTransaction(Requester, u, req)
SnapshotDelete ==
    \E u \in env.users, id \in DeleteIds \cup {"t1"} :
        DeleteTransaction(Requester, u, id)
SnapshotProcess ==
    /\ ProcessAllRecurringTransactions(Requester)
    /\ UNCHANGED nextRun
DoBackupRLock == BackupRLock(Copier)
DoBackupCopy == BackupCopy(Copier)
DoBackupRUnlock == BackupRUnlock(Copier)

NextSnapshot ==
    \/ SnapshotCreate
    \/ SnapshotDelete
    \/ SnapshotProcess
    \/ DoLock
    \/ DoCreateBody
    \/ DoDeleteBody
    \/ DoProcessBody
    \/ DoBackupRLock
    \/ DoBackupCopy
    \/ DoBackupRUnlock
    \/ DoReturn

SpecSnapshot == InitSnapshot /\ [][NextSnapshot]_vars

(***************************************************************************)
(* The lock of the store: two goroutines run every operation on a store    *)
(* that starts empty, GetBackupData entry by entry.                        *)
(***************************************************************************)
InitLocks ==
    /\ InitStore(Procs, {"u1"}, 1, NoData)
    /\ calc = NoCalc

LocksGetTransactions ==
    \E p \in env.procs, u \in env.users :
        GetTransactions(p, u, {}, ZeroTime, ZeroTime, 1, 2)
LocksGetAllTransactions ==
    \E p \in env.procs, u \in env.users : GetAllTransactions(p, u, ZeroTime, ZeroTime)
LocksBackupRLock == \E p \in env.procs : BackupRLock(p)
LocksBackupCopy == \E p \in env.procs : BackupCopy(p)
LocksBackupRUnlock == \E p \in env.procs : BackupRUnlock(p)

NextLocks ==
    \/ LocksGetTransactions
    \/ LocksGetAllTransactions
    \/ DoCreateTransaction
    \/ DoDeleteTransaction
    \/ DoProcess
    \/ LocksBackupRLock
    \/ LocksBackupCopy
    \/ LocksBackupRUnlock
    \/ DoLock
    \/ DoSeed
    \/ DoQueryAnswer
    \/ DoCreateBody
    \/ DoDeleteBody
    \/ DoProcessBody
    \/ DoReturn

SpecLocks == InitLocks /\ [][NextLocks]_vars

(***************************************************************************)
(* The two background tasks on a loaded store, started, stopped and        *)
(* cancelled by their owner.                                               *)
(***************************************************************************)
InitTasks ==
    /\ InitStore(Procs, Users, MaxIds, LoadedData)
    /\ calc = NoCalc

TasksStart == \E t \in Tasks : TaskStart(t)
TasksStop == \E t \in Tasks : StopTask(t)
TasksTickerFires == \E t \in Tasks : TickerFires(t)
TasksSelectTick == \E t \in Tasks : TaskSelectTick(t)
TasksSelectStop == \E t \in Tasks : TaskSelectStop(t)
TasksSelectCtx == \E t \in Tasks : TaskSelectCtx(t)

NextTasks ==
    \/ TasksStart
    \/ TasksStop
    \/ CancelContext
    \/ TasksTickerFires
    \/ TasksSelectTick
    \/ TasksSelectStop
    \/ TasksSelectCtx
    \/ RecurrenceCall
    \/ DoLock
    \/ DoProcessBody
    \/ RecurrenceRunDone
    \/ PerformBackupDirs
    \/ BackupObjectCall
    \/ LocksBackupCopy
    \/ LocksBackupRUnlock
    \/ BackupObjectWrite
    \/ BackupObjectCategories
    \/ BackupRunDone

SpecTasks == InitTasks /\ [][NextTasks]_vars

(***************************************************************************)
(* The application from main to the end of the process, serving one user.  *)
(***************************************************************************)
\* requests are taken while Serve runs
AppCreateTransaction ==
    /\ Alive
    /\ app.serve = "serving"
    /\ \E u \in env.users, req \in CreateRequests : CreateTransaction(Handler, u, req)
AppDeleteTransaction ==
    /\ Alive
    /\ app.serve = "serving"
    /\ \E u \in env.users, id \in {Uuids[1]} : DeleteTransaction(Handler, u, id)

\* the steps of the goroutines while the process runs
AppLock == Alive /\ DoLock
AppCreateBody == Alive /\ DoCreateBody
AppDeleteBody == Alive /\ DoDeleteBody
AppReturn == Alive /\ Return(Handler)
AppCancelContext == app.main # "ended" /\ CancelContext
AppTickerFires == Alive /\ TickerFires("backup")
AppSelectTick == Alive /\ TaskSelectTick("backup")
AppSelectCtx == Alive /\ TaskSelectCtx("backup")
AppPerformBackupDirs == Alive /\ PerformBackupDirs
AppBackupObjectCall == Alive /\ BackupObjectCall
AppBackupCopy == Alive /\ BackupCopy(BackupProc)
AppBackupRUnlock == Alive /\ BackupRUnlock(BackupProc)
AppBackupObjectWrite == Alive /\ BackupObjectWrite
AppBackupObjectCategories == Alive /\ BackupObjectCategories
AppBackupRunDone == Alive /\ BackupRunDone

InitApp ==
    /\ InitStore(Procs, {"u1"}, 1, NoData)
    /\ calc = NoCalc

NextApp ==
    \/ AppStart
    \/ AppBackupStart
    \/ AppHandleShutdown
    \/ AppCancelContext
    \/ AppCtxDone
    \/ AppWgDone
    \/ AppFinalDone
    \/ ServeFails
    \/ ErrReceived
    \/ ShutdownBegin
    \/ ShutdownDone
    \/ ShutdownTimeout
    \/ AppCreateTransaction
    \/ AppDeleteTransaction
    \/ AppLock
    \/ AppCreateBody
    \/ AppDeleteBody
    \/ AppReturn
    \/ AppTickerFires
    \/ AppSelectTick
    \/ AppSelectCtx
    \/ AppPerformBackupDirs
    \/ AppBackupObjectCall
    \/ AppBackupCopy
    \/ AppBackupRUnlock
    \/ AppBackupObjectWrite
    \/ AppBackupObjectCategories
    \/ AppBackupRunDone

SpecApp == InitApp /\ [][NextApp]_vars

(***************************************************************************)
(* The application on a loaded store while it is stopped: the handler      *)
(* lists the transactions of a user once and creates a transaction, the    *)
(* backup task runs, the context is cancelled.                             *)
(***************************************************************************)
\* one GetTransactions request, taken while Serve runs and no reader is in
StopGetTransactions ==
    /\ Alive
    /\ app.serve = "serving"
    /\ readerCount = 0
    /\ op[Handler] = NoOp
    /\ \E u \in env.users :
          GetTransactions(Handler, u, {}, ZeroTime, ZeroTime, 1, 1)
StopQueryAnswer == Alive /\ QueryAnswer(Handler)

InitStop ==
    /\ InitStore(Procs, {"u1"}, 1, LoadedData)
    /\ calc = NoCalc

NextStop ==
    \/ AppStart
    \/ AppBackupStart
    \/ AppHandleShutdown
    \/ AppCancelContext
    \/ AppCtxDone
    \/ AppWgDone
    \/ AppFinalDone
    \/ ServeFails
    \/ ErrReceived
    \/ ShutdownBegin
    \/ ShutdownDone
    \/ ShutdownTimeout
    \/ StopGetTransactions
    \/ StopQueryAnswer
    \/ AppCreateTransaction
    \/ AppLock
    \/ AppCreateBody
    \/ AppReturn
    \/ AppSelectCtx
    \/ AppPerformBackupDirs
    \/ AppBackupObjectCall
    \/ AppBackupCopy
    \/ AppBackupRUnlock
    \/ AppBackupObjectWrite
    \/ AppBackupObjectCategories
    \/ AppBackupRunDone

SpecStop == InitStop /\ [][NextStop]_vars

(***************************************************************************)
(* The resolver on its own: calculateNextAppearDate applied to one         *)
(* reference date and one repeat spec.  An input is drawn as a list of     *)
(* tokens, each with the text that goes into the spec and what it stands   *)
(* for; the spec handed to the function is the texts joined with commas.   *)
(***************************************************************************)
Token(text, kind, val) == [text |-> text, kind |-> kind, val |-> val]

DayTokens == {Token(Itoa(d), "day", d) : d \in 1..31}
WeekdayTokens ==
    {Token(Str(WeekdayNames[w + 1][k]), "weekday", w) : w \in 0..6, k \in 1..2}
    \cup {Token(Str("Mon"), "weekday", 1), Token(Str("FRI"), "weekday", 5)}
BlankTokens == {Token(<<>>, "blank", 0), Token(<<" ">>, "blank", 0)}

\* the tokens the longer specs are made of
ListTokens ==
    {Token(Itoa(1), "day", 1), Token(<<" ">> \o Itoa(15), "day", 15),
     Token(Itoa(31) \o <<" ">>, "day", 31), Token(Str("mon"), "weekday", 1),
     Token(<<" ">> \o Str("sunday"), "weekday", 0), Token(<<>>, "blank", 0)}

TokenLists ==
    {<<t>> : t \in DayTokens \cup WeekdayTokens \cup BlankTokens}
    \cup UNION {[1..n -> ListTokens] : n \in 2..MaxTokens}

\* the reference dates: every day from 2023-12-01 on, across a leap February
RefStart == Date(2023, 12, 1)
RefDates == {AddDays(RefStart, n) : n \in 0..(NumRefDays - 1)}

RepeatTimeOf(tokens) == Join([i \in 1..Len(tokens) |-> tokens[i].text], <<",">>)

InitCalc ==
    /\ InitStore({}, {}, MaxIds, NoData)
    /\ \E r \in RefDates, tokens \in TokenLists :
          calc = [done |-> FALSE, now |-> r, tokens |-> tokens,
                  repeatTime |-> RepeatTimeOf(tokens), result |-> ZeroTime]

Resolve ==
    /\ ~calc.done
    /\ calc' = [calc EXCEPT !.done = TRUE,
                            !.result = calculateNextAppearDate(calc.now,
                                                               calc.repeatTime)]
    /\ UNCHANGED <<now, transactions, readerCount, writer, pc, op, result,
                   uuidCount, created, fired, env, nextRun,
                   userCategories, held, app>>

NextCalc == Resolve

SpecCalc == InitCalc /\ [][NextCalc]_vars

(***************************************************************************)
(* The validator on its own: validateRepeatString applied to one repeat    *)
(* spec, drawn as a list of tokens joined with commas.                     *)
(***************************************************************************)
\* tokens the validator has to reject
BadTokens ==
    {Token(Itoa(32), "bad", 32), Token(Itoa(0), "bad", 0),
     Token(Str("xyz"), "bad", 0), Token(<<" ">> \o Str("xyz"), "bad", 0),
     Token(<<"-">> \o Itoa(5), "bad", 0 - 5)}

ValidateTokens ==
    {Token(Itoa(1), "day", 1), Token(<<" ">> \o Itoa(15), "day", 15),
     Token(Itoa(31), "day", 31), Token(Str("mon"), "weekday", 1),
     Token(Str("Thursday"), "weekday", 4), Token(Str("FRI"), "weekday", 5),
     Token(<<>>, "blank", 0), Token(<<" ">>, "blank", 0)}
    \cup BadTokens

ValidateTokenLists == UNION {[1..n -> ValidateTokens] : n \in 1..MaxTokens}

InitValidate ==
    /\ InitStore({}, {}, MaxIds, NoData)
    /\ \E tokens \in ValidateTokenLists :
          calc = [done |-> FALSE, now |-> ZeroTime, tokens |-> tokens,
                  repeatTime |-> RepeatTimeOf(tokens),
                  result |-> [ok |-> TRUE, names |-> <<>>]]

Validate ==
    /\ ~calc.done
    /\ calc' = [calc EXCEPT !.done = TRUE,
                            !.result = validateRepeatStringError(calc.repeatTime)]
    /\ UNCHANGED <<now, transactions, readerCount, writer, pc, op, result,
                   uuidCount, created, fired, env, nextRun,
                   userCategories, held, app>>

NextValidate == Validate

SpecValidate == InitValidate /\ [][NextValidate]_vars

(***************************************************************************)
(* The recurrence task running every day (RecurringTransactionsService.    *)
(* Start, lines 881-907: one run at startup, then one per tick of a 24h    *)
(* ticker), over a store in which one recurring transaction is created on  *)
(* the first day.                                                          *)
(***************************************************************************)
\* number of days the daily behaviours last
MaxDays == 31

\* the repeat specs of the created transaction, as token lists
ChainTokenLists ==
    {<<Token(Str("fri"), "weekday", 5)>>,
     <<Token(Itoa(1), "day", 1)>>,
     <<Token(Itoa(1), "day", 1), Token(Str("fri"), "weekday", 5)>>,
     <<Token(Str("mon"), "weekday", 1), Token(Str("thu"), "weekday", 4)>>}

ChainTitle == "rent"

InitDaily ==
    /\ InitStore({"p1"}, {"u1"}, Len(Uuids), NoData)
    /\ calc = NoCalc

\* the one CreateTransaction of the behaviour, made on the first day with
\* that day as its date
DailyCreate ==
    /\ uuidCount = 0
    /\ Truncate24h(now) = Truncate24h(StartNow)
    /\ \E p \in env.procs, u \in env.users, tokens \in ChainTokenLists :
          CreateTransaction(p, u, [Amount |-> 50, Title |-> ChainTitle,
                                   Category |-> FoodCategory,
                                   Date |-> FormatDate(now),
                                   RepeatTime |-> RepeatTimeOf(tokens)])

\* lines 889 and 895-896: the task calls ProcessAllRecurringTransactions
\* when a run is due; the next one is due 24 hours later
DailyProcess ==
    /\ now >= nextRun
    /\ nextRun' = AddDays(nextRun, 1)
    /\ \E p \in env.procs : ProcessAllRecurringTransactions(p)

\* time passes while no call is in progress, and not past a run that is due
DailyTick ==
    /\ now < nextRun
    /\ \A p \in Procs : pc[p] = "idle"
    /\ TickTo(StartNow + MaxDays * TicksPerDay)

NextDaily ==
    \/ DailyCreate
    \/ DailyProcess
    \/ DailyTick
    \/ DoLock
    \/ DoCreateBody
    \/ DoProcessBody
    \/ DoReturn

SpecDaily == InitDaily /\ [][NextDaily]_vars

(***************************************************************************)
(* The queries on their own: GetTransactions and GetAllTransactions of one *)
(* user whose collection was loaded at construction, with date and         *)
(* category filters and pages of several sizes.                            *)
(***************************************************************************)
\* most transactions in the loaded collection
MaxQueryItems == 4
\* largest page number and page size asked for
MaxPage == 3
MaxPageSize == 3

\* the days the loaded transactions fall on
QueryDay(n) == AddDays(Truncate24h(StartNow), 0 - n)

\* what the collection is drawn from: the demo dataset as seeded at StartNow
\* (its dates carry StartNow's time of day) and transactions as
\* CreateTransaction and ProcessAllRecurringTransactions date them (midnight)
QueryPool ==
    Values(getInitialTransactions(StartNow))
    \cup {Transaction("q1", 10, "bread", FoodCategory, QueryDay(2), ZeroTime, <<>>),
          Transaction("q2", 20, "milk", FoodCategory, QueryDay(3), ZeroTime, <<>>),
          Transaction("q3", 30, "game", FunCategory, QueryDay(2), ZeroTime, <<>>),
          Transaction("q4", 40, "tea", FoodCategory, QueryDay(1), ZeroTime, <<>>)}

QueryCollections ==
    {[id \in {t.ID : t \in S} |-> CHOOSE t \in S : t.ID = id] :
        S \in {S \in SUBSET QueryPool : Cardinality(S) <= MaxQueryItems}}

\* from and to as the router parses them (time.Parse of YYYY-MM-DD), or the
\* zero time when the parameter is absent
QueryFromDates == {ZeroTime, ParseDate(FormatDate(QueryDay(2))).val}
QueryToDates ==
    {ZeroTime, ParseDate(FormatDate(QueryDay(2))).val,
     ParseDate(FormatDate(QueryDay(1))).val}
QueryCategoryFilters == {{}, {FoodCategory}}

InitQuery ==
    /\ \E collection \in QueryCollections :
          InitStore({"p1"}, {"u1"}, 0,
                    [isNil |-> FALSE, data |-> [u \in {"u1"} |-> collection]])
    /\ calc = NoCalc

QueryGetTransactions ==
    \E p \in env.procs, u \in env.users, categories \in QueryCategoryFilters,
       fromDate \in QueryFromDates, toDate \in QueryToDates,
       page \in 1..MaxPage, pageSize \in 1..MaxPageSize :
        GetTransactions(p, u, categories, fromDate, toDate, page, pageSize)

QueryGetAllTransactions ==
    \E p \in env.procs, u \in env.users, fromDate \in QueryFromDates,
       toDate \in QueryToDates :
        GetAllTransactions(p, u, fromDate, toDate)

NextQuery ==
    \/ QueryGetTransactions
    \/ QueryGetAllTransactions
    \/ DoQueryAnswer
    \/ DoReturn

SpecQuery == InitQuery /\ [][NextQuery]_vars

(***************************************************************************)
(* Statistics of one user over a loaded collection: SpecStats.             *)
(***************************************************************************)
\* the collection is drawn from the demo dataset as seeded at StartNow (dated
\* at StartNow's time of day) and from created transactions (dated at
\* midnight): an income, two expenses of one date, and a refund entered as
\* an expense with a negative amount
StatsPool ==
    Values(getInitialTransactions(StartNow))
    \cup {Transaction("s1", 1000, "pay", IncomeCategory, QueryDay(2), ZeroTime, <<>>),
          Transaction("s2", 300, "shop", FoodCategory, QueryDay(1), ZeroTime, <<>>),
          Transaction("s3", 50, "game", FunCategory, QueryDay(1), ZeroTime, <<>>),
          Transaction("s4", 0 - 20, "refund", FoodCategory, QueryDay(2), ZeroTime, <<>>)}

StatsCollections ==
    {[id \in {t.ID : t \in S} |-> CHOOSE t \in S : t.ID = id] :
        S \in {S \in SUBSET StatsPool : Cardinality(S) <= MaxQueryItems}}

\* from and to as the router parses them (part_007 lines 193-207): both
\* absent, both given, or from alone
StatsPeriods ==
    {<<ZeroTime, ZeroTime>>,
     <<ParseDate(FormatDate(QueryDay(2))).val, ParseDate(FormatDate(QueryDay(1))).val>>,
     <<ParseDate(FormatDate(QueryDay(2))).val, ParseDate(FormatDate(QueryDay(2))).val>>,
     <<ParseDate(FormatDate(QueryDay(1))).val, ZeroTime>>}

InitStats ==
    /\ \E collection \in StatsCollections :
          InitStore({"p1"}, {"u1"}, 0,
                    [isNil |-> FALSE, data |-> [u \in {"u1"} |-> collection]])
    /\ calc = NoCalc

StatsGetStatistics ==
    \E p \in env.procs, u \in env.users, period \in StatsPeriods :
        GetStatistics(p, u, period[1], period[2])

StatsPeriodTaken == \E p \in env.procs : StatisticsPeriodTaken(p)

StatsHistory == \E p \in env.procs : StatisticsHistory(p)

StatsAnswer == \E p \in env.procs : StatisticsAnswer(p)

NextStats ==
    \/ StatsGetStatistics
    \/ DoQueryAnswer
    \/ StatsPeriodTaken
    \/ StatsHistory
    \/ StatsAnswer

SpecStats == InitStats /\ [][NextStats]_vars

(***************************************************************************)
(* GetStatistics of one goroutine while another creates and deletes        *)
(* transactions of the same user: SpecRace.                                *)
(***************************************************************************)
\* the goroutine that serves the writes
Writer == "p2"

\* the store starts empty or with two expenses of the user, of one date
RaceData ==
    {NoData,
     [isNil |-> FALSE, data |->
         [u \in {"u1"} |->
             ("s2" :> Transaction("s2", 300, "shop", FoodCategory, QueryDay(1),
                                  ZeroTime, <<>>))
             @@ ("s3" :> Transaction("s3", 50, "game", FunCategory, QueryDay(1),
                                     ZeroTime, <<>>))]]}

RacePeriods ==
    {<<ZeroTime, ZeroTime>>,
     <<ParseDate(FormatDate(QueryDay(1))).val, ParseDate(FormatDate(QueryDay(0))).val>>}

InitRace ==
    /\ \E initialData \in RaceData : InitStore(Procs, {"u1"}, 1, initialData)
    /\ calc = NoCalc

RaceGetStatistics ==
    \E u \in env.users, period \in RacePeriods :
        GetStatistics(Requester, u, period[1], period[2])

RaceCreate ==
    \E u \in env.users :
        CreateTransaction(Writer, u, [Amount |-> 50, Title |-> "rent",
                                      Category |-> FoodCategory,
                                      Date |-> FormatDate(StartNow),
                                      RepeatTime |-> <<>>])

RaceDelete == \E u \in env.users, id \in {"s2", Uuids[1]} : DeleteTransaction(Writer, u, id)

RaceReturn == Return(Writer)

NextRace ==
    \/ RaceGetStatistics
    \/ StatsPeriodTaken
    \/ StatsHistory
    \/ StatsAnswer
    \/ RaceCreate
    \/ RaceDelete
    \/ DoLock
    \/ DoSeed
    \/ DoQueryAnswer
    \/ DoCreateBody
    \/ DoDeleteBody
    \/ RaceReturn

SpecRace == InitRace /\ [][NextRace]_vars

(***************************************************************************)
(* The pages of a listing asked for one after the other, by two            *)
(* goroutines, on a store no request changes: SpecPages.                   *)
(***************************************************************************)
\* a call starts when the call before it has answered
PagesGetTransactions ==
    /\ \A q \in Procs : pc[q] \in {"idle", "done"}
    /\ \E p \in env.procs, u \in env.users, categories \in QueryCategoryFilters,
          page \in 1..MaxPage, pageSize \in 1..MaxPageSize :
           GetTransactions(p, u, categories, ZeroTime, ZeroTime, page, pageSize)

InitPages ==
    /\ \E collection \in QueryCollections :
          InitStore(Procs, {"u1"}, 0,
                    [isNil |-> FALSE, data |-> [u \in {"u1"} |-> collection]])
    /\ calc = NoCalc

NextPages ==
    \/ PagesGetTransactions
    \/ DoQueryAnswer

SpecPages == InitPages /\ [][NextPages]_vars

(***************************************************************************)
(* Two users served by one goroutine, every request of the API: SpecUsers. *)
(***************************************************************************)
NameFilters == {<<>>, <<"p">>}

InitUsers ==
    /\ \E initialData \in {NoData, LoadedData} :
          InitStore({"p1"}, Users, 1, initialData)
    /\ calc = NoCalc

\* a goroutine takes a request when it has answered the one before
UsersCreateTransaction ==
    \E p \in env.procs, u \in env.users :
        op[p] = NoOp /\ CreateTransaction(p, u, [Amount |-> 50, Title |-> "rent",
                                 Category |-> FoodCategory,
                                 Date |-> FormatDate(StartNow),
                                 RepeatTime |-> <<>>])

UsersDeleteTransaction ==
    \E p \in env.procs, u \in env.users, id \in {Uuids[1], "t1"} :
        op[p] = NoOp /\ DeleteTransaction(p, u, id)

UsersGetTransactions ==
    \E p \in env.procs, u \in env.users :
        op[p] = NoOp /\ GetTransactions(p, u, {}, ZeroTime, ZeroTime, 1, MaxPageSize)

UsersGetAllTransactions ==
    \E p \in env.procs, u \in env.users :
        op[p] = NoOp /\ GetAllTransactions(p, u, ZeroTime, ZeroTime)

UsersGetStatistics ==
    \E p \in env.procs, u \in env.users : GetStatistics(p, u, ZeroTime, ZeroTime)

UsersCreateCategory ==
    \E p \in env.procs, u \in env.users, name \in {<<"p","e","t","s">>, <<"e","d","a">>} :
        op[p] = NoOp /\ CreateCategory(p, u, name)

UsersGetCategories ==
    \E p \in env.procs, u \in env.users, nameFilter \in NameFilters :
        op[p] = NoOp /\ GetCategories(p, u, nameFilter)

\* the answer goes to the client; the lists GetStatistics asked for go to
\* GetStatistics
UsersReturn ==
    \E p \in env.procs : "stage" \notin DOMAIN op[p] /\ Return(p)

NextUsers ==
    \/ UsersCreateTransaction
    \/ UsersDeleteTransaction
    \/ UsersGetTransactions
    \/ UsersGetAllTransactions
    \/ UsersGetStatistics
    \/ StatsPeriodTaken
    \/ StatsHistory
    \/ StatsAnswer
    \/ UsersCreateCategory
    \/ UsersGetCategories
    \/ DoLock
    \/ DoSeed
    \/ DoQueryAnswer
    \/ DoCreateBody
    \/ DoDeleteBody
    \/ UsersReturn

SpecUsers == InitUsers /\ [][NextUsers]_vars

(***************************************************************************)
(* Properties of the resolver, under SpecCalc.                             *)
(***************************************************************************)
SetMin(S) == CHOOSE x \in S : \A y \in S : x <= y

OneToken(kind) == Len(calc.tokens) = 1 /\ calc.tokens[1].kind = kind

\* the month after the month of r, as <<year, month>>
FollowingMonth(r) ==
    IF Month(r) = 12 THEN <<Year(r) + 1, 1>> ELSE <<Year(r), Month(r) + 1>>

\* C6: for a single day-of-month token d and every reference date r, the
\* result has day-of-month d and lies in r's month when d >= r.day, in the
\* following month otherwise.
C6_DayOfMonthInMonth ==
    (calc.done /\ OneToken("day")) =>
        LET d == calc.tokens[1].val
            r == calc.now
            res == calc.result
        IN  /\ Day(res) = d
            /\ <<Year(res), Month(res)>> =
                   IF d >= Day(r) THEN <<Year(r), Month(r)>> ELSE FollowingMonth(r)

\* C7: for a single weekday token w and every reference date r, the result
\* is the first date strictly after r whose weekday is w, 1 to 7 days after
\* r; when w is r's own weekday it is r + 7 days.
C7_NextWeekday ==
    (calc.done /\ OneToken("weekday")) =>
        LET w == calc.tokens[1].val
            r == calc.now
            res == calc.result
        IN  /\ res \in {AddDays(r, n) : n \in 1..7}
            /\ Weekday(res) = w
            /\ (w = Weekday(r) => res = AddDays(r, 7))

\* the token names the reference date's own weekday and the result is a
\* week later
C7_Witness ==
    /\ calc.done /\ OneToken("weekday")
    /\ calc.tokens[1].val = Weekday(calc.now)
    /\ calc.result = AddDays(calc.now, 7)

\* what a token of the input stands for, resolved against r
CandidateOf(r, token) ==
    IF token.kind = "day" THEN DayOfMonthCandidate(r, token.val)
    ELSE WeekdayCandidate(r, token.val)

CandidatesOf(r, tokens) ==
    {CandidateOf(r, tokens[i]) : i \in {j \in 1..Len(tokens) : tokens[j].kind # "blank"}}

\* C8: for every reference date and every token list, the result is the
\* earliest of the tokens' candidates and of r + 1 year; with no candidate
\* it is r + 1 year.
C8_EarliestCandidate ==
    calc.done =>
        /\ calc.result =
               SetMin(CandidatesOf(calc.now, calc.tokens)
                      \cup {AddDate(calc.now, 1, 0, 0)})
        /\ (CandidatesOf(calc.now, calc.tokens) = {}
                => calc.result = AddDate(calc.now, 1, 0, 0))

\* two tokens of different kinds, the second one's candidate the earlier,
\* and it is the result
C8_Witness ==
    /\ calc.done /\ Len(calc.tokens) = 2
    /\ calc.tokens[1].kind = "day" /\ calc.tokens[2].kind = "weekday"
    /\ CandidateOf(calc.now, calc.tokens[2]) < CandidateOf(calc.now, calc.tokens[1])
    /\ calc.result = CandidateOf(calc.now, calc.tokens[2])

(***************************************************************************)
(* Properties of the store.                                                *)
(***************************************************************************)
InStore(ui) == ui[1] \in DOMAIN transactions /\ ui[2] \in DOMAIN transactions[ui[1]]

AllIds(store) == UNION {DOMAIN store[u] : u \in DOMAIN store}

\* goroutine p is about to run the locked part of
\* ProcessAllRecurringTransactions
ProcessRuns(p) ==
    /\ pc[p] = "pending"
    /\ op[p].name = "ProcessAllRecurringTransactions"
    /\ pc'[p] = "done"

\* the ids of user u's transactions with a repeat spec whose next-appear-date
\* falls on the day today
DueIds(u, today) ==
    {id \in DOMAIN transactions[u] :
        /\ transactions[u][id].RepeatTime # <<>>
        /\ Truncate24h(transactions[u][id].NextAppearDate) = today}

\* the record a copy of t made on the day today under the id k has to be
ExpectedCopy(t, k, today) ==
    [ID |-> k, Amount |-> t.Amount, Title |-> t.Title, Category |-> t.Category,
     Date |-> today, RepeatTime |-> t.RepeatTime,
     NextAppearDate |-> calculateNextAppearDate(today, t.RepeatTime)]

\* C1: one run of ProcessAllRecurringTransactions with current day today
\* adds, for every user and every transaction t with a repeat spec and
\* next-appear-date on today, exactly one transaction: fresh id, date today,
\* t's amount, title, category and repeat spec, next-appear-date resolved
\* from today; t stays under its id with the repeat spec cleared and every
\* other field unchanged.
C1_Materialize ==
    [][\A p \in Procs : ProcessRuns(p) =>
          /\ DOMAIN transactions' = DOMAIN transactions
          /\ \A u \in DOMAIN transactions :
                LET today == op[p].today
                    dueIds == DueIds(u, today)
                    newIds == DOMAIN transactions'[u] \ DOMAIN transactions[u]
                IN  /\ newIds \cap AllIds(transactions) = {}
                    /\ \E f \in [dueIds -> newIds] :
                          /\ \A k \in newIds : \E id \in dueIds : f[id] = k
                          /\ \A a, b \in dueIds : a # b => f[a] # f[b]
                          /\ \A id \in dueIds :
                                transactions'[u][f[id]] =
                                    ExpectedCopy(transactions[u][id], f[id], today)
                    /\ \A id \in dueIds :
                          /\ id \in DOMAIN transactions'[u]
                          /\ transactions'[u][id] =
                                 [transactions[u][id] EXCEPT !.RepeatTime = <<>>]
      ]_vars

\* a run has returned after spawning a copy for each of two users
C1_Witness ==
    \E p \in Procs :
        /\ pc[p] = "done"
        /\ op[p].name = "ProcessAllRecurringTransactions"
        /\ \A u \in Users :
              /\ u \in DOMAIN transactions
              /\ \E id \in DOMAIN transactions[u] : <<u, id>> \in fired
              /\ \E k \in DOMAIN transactions[u] :
                    /\ transactions[u][k].Date = op[p].today
                    /\ transactions[u][k].RepeatTime # <<>>
                    /\ transactions[u][k].Title = "gym"

\* C2: lazy seeding never overwrites an existing collection, so a
\* transaction whose Create has returned stays in the store until it is
\* deleted.
C2_CreatedStay ==
    /\ \A ui \in created : InStore(ui)
    /\ \A p \in Procs :
          (pc[p] = "pending" /\ IsQuery(op[p]) /\ op[p].user \in DOMAIN transactions)
              => ~(ENABLED Seed(p))

\* C4: a query by a user without a collection returns the demo transactions
\* that pass its filter, not an empty result.
C4_FirstQuerySeesDemo ==
    \A p \in Procs :
        (pc[p] = "done" /\ IsQuery(op[p]) /\ ~op[p].exists) =>
            LET o == op[p]
                demo == transactions[o.user]
            IN  IF o.name = "GetTransactions"
                THEN result[p] \in GetTransactionsResults(demo, o.categories,
                                        o.fromDate, o.toDate, o.page, o.pageSize)
                ELSE result[p] \in GetAllTransactionsResults(demo, o.fromDate,
                                                             o.toDate)

\* C5: a store built by NewTransactionsService from what GetBackupData
\* returns answers every Query and QueryAll with the same transactions,
\* field by field, as the store the backup was taken from.
C5_BackupRoundTrip ==
    LET restored ==
            NewTransactionsService([isNil |-> FALSE, data |-> BackupData(transactions)])
    IN  \A u \in DOMAIN transactions :
            /\ \A c \in CategoryFilters, f \in FromDates, t \in ToDates,
                  page \in Pages, size \in PageSizes :
                  GetTransactionsResults(restored[u], c, f, t, page, size)
                      = GetTransactionsResults(transactions[u], c, f, t, page, size)
            /\ \A f \in FromDates, t \in ToDates :
                  GetAllTransactionsResults(restored[u], f, t)
                      = GetAllTransactionsResults(transactions[u], f, t)

\* C10: a transaction a copy was spawned from is never the source of
\* another copy, and stays in the store until it is deleted.
C10_FiresOnce ==
    [][\A ui \in fired :
          /\ (ui \in fired' =>
                 /\ ui[1] \in DOMAIN transactions'
                 /\ ui[2] \in DOMAIN transactions'[ui[1]])
          /\ \A p \in Procs :
                ProcessRuns(p) => ui \notin DueTransactions(transactions, op[p].today)
      ]_vars

\* the calls that take the exclusive lock for their own work
WriterCalls ==
    {"ProcessAllRecurringTransactions", "CreateTransaction", "DeleteTransaction"}

\* C3: under fair scheduling every invocation of
\* ProcessAllRecurringTransactions, and every Create and Delete, that has
\* been started eventually acquires the exclusive lock and completes,
\* whatever requests precede it.
C3_WritersComplete ==
    \A p \in Procs :
        (pc[p] \in {"lock", "pending"} /\ op[p].name \in WriterCalls)
            ~> (pc[p] = "done")

(***************************************************************************)
(* Properties of the daily runs, under SpecDaily.                          *)
(***************************************************************************)
\* the token list the created transaction's repeat spec was joined from
ChainTokens(repeatTime) ==
    CHOOSE tokens \in ChainTokenLists : RepeatTimeOf(tokens) = repeatTime

\* the day d is one of the days the token list names
Scheduled(d, tokens) ==
    \E i \in 1..Len(tokens) :
        \/ tokens[i].kind = "day" /\ tokens[i].val = Day(d)
        \/ tokens[i].kind = "weekday" /\ tokens[i].val = Weekday(d)

\* the days whose run has been made and has returned
RunDays ==
    {d \in {AddDays(Truncate24h(StartNow), n) : n \in 0..MaxDays} :
        /\ AddDays(Truncate24h(StartNow) + TimeOfDay(StartNow), DayOf(d) - DayOf(StartNow))
               < nextRun
        /\ \A p \in Procs : pc[p] = "idle"}

\* C9: with one run of ProcessAllRecurringTransactions on every consecutive
\* day, a transaction created with date D and a repeat spec has a copy
\* spawned on every later day its spec names: after the run of such a day
\* the store holds a copy dated that day.
C9_ChainContinues ==
    \A ui \in created :
        InStore(ui) =>
            LET origin == transactions[ui[1]][ui[2]]
                chain == {t \in Values(transactions[ui[1]]) : t.Title = ChainTitle}
                specs == {t.RepeatTime : t \in chain} \ {<<>>}
            IN  \A repeatTime \in specs, d \in RunDays :
                    (After(d, origin.Date) /\ Scheduled(d, ChainTokens(repeatTime)))
                        => \E t \in chain : t.ID # origin.ID /\ t.Date = d


(***************************************************************************)
(* Properties of the validator, under SpecValidate.                        *)
(***************************************************************************)
\* the tokens of the validated spec that are neither a day of the month in
\* 1..31 nor a weekday name
OtherTokens ==
    {i \in 1..Len(calc.tokens) : calc.tokens[i].kind \notin {"day", "weekday"}}

\* C11: validateRepeatString accepts a spec if and only if the spec is empty
\* or every token between its commas is, trimmed, an integer in 1..31 or a
\* weekday name in any letter case; a rejected spec's error names the
\* offending token.
C11_ValidatesTokens ==
    calc.done =>
        /\ calc.result.ok <=> (calc.repeatTime = <<>> \/ OtherTokens = {})
        /\ ~calc.result.ok =>
               \E i \in OtherTokens :
                   calc.result.names = TrimSpace(calc.tokens[i].text)

\* the verdict with the error text is the verdict of validateRepeatString
ValidatorsAgree ==
    calc.done => (calc.result.ok <=> validateRepeatString(calc.repeatTime))

(***************************************************************************)
(* Properties of CreateTransaction and DeleteTransaction.                  *)
(***************************************************************************)
\* the requests CreateTransaction has to refuse: a date that is no calendar
\* day written YYYY-MM-DD, or a repeat spec with a token that is neither a
\* day number nor a weekday
RefusedDates == {<<"2","0","2","5","-","0","2","-","3","0">>}
RefusedRepeatTimes == {Str("xyz")}
Refused(req) == req.Date \in RefusedDates \/ req.RepeatTime \in RefusedRepeatTimes

\* the step in which client p calls CreateTransaction
CreateCalled(p) == op[p] = NoOp /\ op'[p].name = "CreateTransaction"

\* C12: CreateTransaction with an invalid date or a rejected repeat spec
\* returns a bad-request error and leaves the whole store unchanged: no
\* record is added and no collection is created or seeded.
C12_RefusedCreate ==
    [][\A p \in Procs :
          (CreateCalled(p) /\ Refused(op'[p].req)) =>
              /\ pc'[p] = "done"
              /\ result'[p] = [kind |-> "error", err |-> "bad request"]
              /\ transactions' = transactions]_vars

C12_Witness ==
    \E p \in Procs :
        /\ pc[p] = "done"
        /\ op[p].name = "CreateTransaction"
        /\ op[p].req.RepeatTime \in RefusedRepeatTimes
        /\ result[p].kind = "error"
        /\ op[p].user \notin DOMAIN transactions

\* the step in which client p's CreateTransaction stores its record and
\* succeeds
CreateSucceeds(p) ==
    /\ pc[p] = "pending"
    /\ op[p].name = "CreateTransaction"
    /\ pc'[p] = "done"

\* C13: a successful CreateTransaction by user u returns an id that is not
\* yet in the store and stores under it a record with the requested amount,
\* title, category, date and repeat spec, whose next-appear-date is
\* calculateNextAppearDate(date, spec) for a non-empty spec and unset
\* otherwise; a user without a collection gets the demo dataset plus the new
\* record; every transaction that existed before is unchanged.
C13_CreateStores ==
    [][\A p \in Procs :
          CreateSucceeds(p) =>
              LET u == op[p].user
                  req == op[p].req
                  id == result'[p].ID
                  before == IF u \in DOMAIN transactions
                            THEN transactions[u]
                            ELSE getInitialTransactions(now)
              IN  /\ result'[p].kind = "created"
                  /\ id \notin AllIds(transactions)
                  /\ id \notin DOMAIN before
                  /\ DOMAIN transactions' = DOMAIN transactions \cup {u}
                  /\ DOMAIN transactions'[u] = DOMAIN before \cup {id}
                  /\ \A k \in DOMAIN before : transactions'[u][k] = before[k]
                  /\ \A v \in DOMAIN transactions \ {u} :
                        transactions'[v] = transactions[v]
                  /\ LET t == transactions'[u][id]
                     IN  /\ t.ID = id
                         /\ t.Amount = req.Amount
                         /\ t.Title = req.Title
                         /\ t.Category = req.Category
                         /\ FormatDate(t.Date) = req.Date
                         /\ TimeOfDay(t.Date) = 0
                         /\ t.RepeatTime = req.RepeatTime
                         /\ t.NextAppearDate =
                                IF req.RepeatTime # <<>>
                                THEN calculateNextAppearDate(t.Date, req.RepeatTime)
                                ELSE ZeroTime]_vars

\* a recurring transaction has been created for a user who had no
\* collection, next to one of another user
C13_Witness ==
    \E ui \in created :
        /\ InStore(ui)
        /\ transactions[ui[1]][ui[2]].RepeatTime # <<>>
        /\ DOMAIN transactions[ui[1]] =
               {DemoWaterId, DemoCinemaId, DemoSalaryId, ui[2]}
        /\ DOMAIN transactions = Users

\* the step in which client p's DeleteTransaction runs under the lock and
\* returns
DeleteReturns(p) ==
    /\ pc[p] = "pending"
    /\ op[p].name = "DeleteTransaction"
    /\ pc'[p] = "done"

\* C15: DeleteTransaction never returns an error; for an existing id it
\* removes exactly that transaction from the caller's collection; for an
\* unknown id or a user with no collection it changes nothing and creates
\* no collection; afterwards the id is absent, so a second call changes
\* nothing.
C15_DeleteRemoves ==
    [][\A p \in Procs :
          DeleteReturns(p) =>
              LET u == op[p].user
                  id == op[p].id
              IN  /\ result'[p] = [kind |-> "ok"]
                  /\ DOMAIN transactions' = DOMAIN transactions
                  /\ \A v \in DOMAIN transactions :
                        /\ DOMAIN transactions'[v] =
                               IF v = u THEN DOMAIN transactions[v] \ {id}
                               ELSE DOMAIN transactions[v]
                        /\ \A k \in DOMAIN transactions'[v] :
                               transactions'[v][k] = transactions[v][k]]_vars

\* a DeleteTransaction has removed the demo salary from a collection and
\* left the rest of it
C15_Witness ==
    \E p \in Procs :
        /\ pc[p] = "done"
        /\ op[p].name = "DeleteTransaction"
        /\ op[p].id = DemoSalaryId
        /\ op[p].user \in DOMAIN transactions
        /\ DOMAIN transactions[op[p].user] \cap {DemoWaterId, DemoSalaryId}
               = {DemoWaterId}

(***************************************************************************)
(* Invariants of the stored transactions.                                  *)
(***************************************************************************)
\* the <<user, id>> of every stored transaction
Stored == UNION {{<<u, id>> : id \in DOMAIN transactions[u]} : u \in DOMAIN transactions}

\* C14: every stored transaction has a non-empty repeat spec if and only if
\* its next-appear-date is set, except the transactions from which
\* ProcessAllRecurringTransactions has spawned a copy.
C14_SpecIffNextAppearDate ==
    \A ui \in Stored \ fired :
        LET t == transactions[ui[1]][ui[2]]
        IN  (t.RepeatTime # <<>>) <=> ~IsZero(t.NextAppearDate)

\* the store holds a fired original, a copy with the repeat spec and a
\* transaction without repeat spec
C14_Witness ==
    /\ \E ui \in fired :
          /\ InStore(ui)
          /\ transactions[ui[1]][ui[2]].RepeatTime = <<>>
          /\ ~IsZero(transactions[ui[1]][ui[2]].NextAppearDate)
    /\ \E ui \in Stored \ fired :
          /\ ui[2] \in {Uuids[i] : i \in 1..Len(Uuids)}
          /\ ui \notin created
          /\ transactions[ui[1]][ui[2]].RepeatTime # <<>>
    /\ \E ui \in Stored \ fired :
          /\ transactions[ui[1]][ui[2]].RepeatTime = <<>>
          /\ IsZero(transactions[ui[1]][ui[2]].NextAppearDate)

(***************************************************************************)
(* Properties of the queries, under SpecQuery.                             *)
(***************************************************************************)
\* client p's query of an existing collection has its answer
QueryAnswered(p) == pc[p] = "done" /\ IsQuery(op[p]) /\ op[p].exists

\* the transactions in an answer
DataSet(data) == {data[i] : i \in 1..Len(data)}

\* the category filter of the query o; GetAllTransactions has none
CategoryPasses(o, t) ==
    o.name = "GetAllTransactions" \/ o.categories = {} \/ t.Category \in o.categories

\* the transactions the query o has to select, dates compared as instants
Matching(o) ==
    {t \in Values(transactions[o.user]) :
        /\ IsZero(o.fromDate) \/ t.Date >= o.fromDate
        /\ IsZero(o.toDate) \/ t.Date <= o.toDate
        /\ CategoryPasses(o, t)}

\* the answer of the query o holds everything selected: GetAllTransactions,
\* or a first page with room for all of selected
Unpaged(o, selected) ==
    \/ o.name = "GetAllTransactions"
    \/ o.page = 1 /\ o.pageSize >= Cardinality(selected)

\* C16: for a user with an existing collection, GetTransactions (before
\* pagination) and GetAllTransactions select exactly the transactions with
\* (fromDate unset or date >= fromDate) and (toDate unset or date <= toDate)
\* and, for GetTransactions, (no category filter or category in the filter),
\* ordered by date, newest first.
C16_SelectsAndSorts ==
    \A p \in Procs :
        QueryAnswered(p) =>
            LET o == op[p]
                data == result[p].Data
            IN  /\ DataSet(data) \subseteq Matching(o)
                /\ Cardinality(DataSet(data)) = Len(data)
                /\ \A i \in 1..(Len(data) - 1) : data[i].Date >= data[i + 1].Date
                /\ Unpaged(o, Matching(o)) => DataSet(data) = Matching(o)

\* an answer with both date bounds and a category filter, leaving out some
\* transactions and holding two of different dates
C16_Witness ==
    \E p \in Procs :
        /\ QueryAnswered(p)
        /\ op[p].name = "GetTransactions"
        /\ ~IsZero(op[p].fromDate) /\ ~IsZero(op[p].toDate)
        /\ op[p].categories # {}
        /\ Len(result[p].Data) >= 2
        /\ result[p].Data[1].Date > result[p].Data[2].Date
        /\ Cardinality(DOMAIN transactions[op[p].user]) = MaxQueryItems

\* the transactions the query o has to select when dates are compared by
\* calendar day
CalendarMatching(o) ==
    {t \in Values(transactions[o.user]) :
        /\ IsZero(o.fromDate) \/ DayOf(t.Date) >= DayOf(o.fromDate)
        /\ IsZero(o.toDate) \/ DayOf(t.Date) <= DayOf(o.toDate)
        /\ CategoryPasses(o, t)}

\* C17: date filtering compares calendar dates only: with toDate = D every
\* transaction whose calendar date is D is in the answer, whatever time of
\* day its stored date carries, and likewise for fromDate.
C17_CalendarDates ==
    \A p \in Procs :
        (QueryAnswered(p) /\ Unpaged(op[p], CalendarMatching(op[p]))) =>
            CalendarMatching(op[p]) \subseteq DataSet(result[p].Data)

\* C18: with n matching transactions, GetTransactions returns totalPages =
\* ceil(n / pageSize), currentPage = the page asked for, and on page p the
\* items at positions (p-1)*pageSize+1 .. min(p*pageSize, n) of the sorted
\* list; a page beyond totalPages is empty with the same totalPages.
C18_Pagination ==
    \A p \in Procs :
        (QueryAnswered(p) /\ op[p].name = "GetTransactions") =>
            LET o == op[p]
                data == result[p].Data
                n == Cardinality(Matching(o))
                pages == CHOOSE k \in 0..n :
                             k * o.pageSize >= n /\ (k = 0 \/ (k - 1) * o.pageSize < n)
                first == (o.page - 1) * o.pageSize + 1
                last == IF o.page * o.pageSize < n THEN o.page * o.pageSize ELSE n
                rest == Matching(o) \ DataSet(data)
            IN  /\ result[p].TotalPages = pages
                /\ result[p].CurrentPage = o.page
                /\ Len(data) = IF o.page > pages THEN 0 ELSE last - first + 1
                /\ Cardinality(DataSet(data)) = Len(data)
                /\ DataSet(data) \subseteq Matching(o)
                /\ \A i \in 1..(Len(data) - 1) : data[i].Date >= data[i + 1].Date
                /\ Len(data) > 0 =>
                      \E earlier \in SUBSET rest :
                          /\ Cardinality(earlier) = first - 1
                          /\ \A t \in earlier : t.Date >= data[1].Date
                          /\ \A t \in rest \ earlier : t.Date <= data[Len(data)].Date

\* a last page that is not full
C18_Witness ==
    \E p \in Procs :
        /\ QueryAnswered(p)
        /\ op[p].name = "GetTransactions"
        /\ op[p].page = result[p].TotalPages
        /\ op[p].page > 1
        /\ Len(result[p].Data) \in 1..(op[p].pageSize - 1)

\* a page beyond the last one
C18_BeyondLastPage ==
    \E p \in Procs :
        /\ QueryAnswered(p)
        /\ op[p].name = "GetTransactions"
        /\ result[p].TotalPages >= 1
        /\ op[p].page > result[p].TotalPages


C20_SnapshotConsistent ==
    [][\A p \in Procs :
          (pc[p] = "copy" /\ pc'[p] = "done") =>
              result'[p].data = BackupData(transactions')]_vars

\* a snapshot has returned with both copies of a recurrence run in it, while
\* the next write waits in Lock() for the reader to leave
C20_Witness ==
    /\ pc[Copier] = "done"
    /\ result[Copier].kind = "backup"
    /\ \A u \in Users : Cardinality(DOMAIN result[Copier].data[u]) = 2
    /\ fired # {}
    /\ writer = Requester
    /\ pc[Requester] = "pending"

(***************************************************************************)
(* Properties of the store's lock.                                         *)
(***************************************************************************)
\* the goroutine holds a read lock between two of its steps
HoldsRLock(p) ==
    \/ pc[p] = "copy"
    \/ pc[p] = "rlock2" /\ IsQuery(op[p]) /\ op[p].exists

\* the step is p's critical section under Lock(): enter, write, Unlock
WriteStep(p) == pc[p] = "pending" /\ pc'[p] # "pending"

\* the step has p read ts.transactions: the lookup of a query, its filter
\* loop, or an iteration of GetBackupData
ReadStep(p) ==
    \/ pc[p] = "idle" /\ IsQuery(op'[p])
    \/ pc[p] = "rlock2" /\ pc'[p] = "done"
    \/ pc[p] \in {"idle", "copy"} /\ pc'[p] = "copy"

\* C21: lock discipline of the store.  Every change of the user-to-
\* transactions mapping is made by the one goroutine that is inside Lock(),
\* at a moment when no read lock is held and nobody else is in a critical
\* section; every read is made by a goroutine that holds the read lock or
\* takes it in that step with no writer ahead of it; and two
\* ProcessAllRecurringTransactions runs never overlap.
C21_LockDiscipline ==
    [][/\ transactions' # transactions => \E p \in Procs : WriteStep(p)
       /\ \A p \in Procs :
             WriteStep(p) =>
                 /\ writer = p
                 /\ readerCount = 0
                 /\ \A q \in Procs \ {p} : ~HoldsRLock(q) /\ ~WriteStep(q)
       /\ \A p \in Procs :
             ReadStep(p) =>
                 /\ HoldsRLock(p) \/ writer = NoProc
                 /\ \A q \in Procs : ~WriteStep(q)
       /\ \A p, q \in Procs :
             /\ op[p].name = "ProcessAllRecurringTransactions"
             /\ op[q].name = "ProcessAllRecurringTransactions"
             => p = q]_vars

\* GetBackupData is in the middle of its copy, holding the read lock, while
\* a CreateTransaction waits in Lock() for it, after an earlier write
C21_Witness ==
    \E p, q \in Procs :
        /\ pc[p] = "copy"
        /\ result[p].data # EmptyMap
        /\ writer = q
        /\ pc[q] = "pending"
        /\ op[q].name = "CreateTransaction"
        /\ readerCount > 0
        /\ transactions # EmptyMap

(***************************************************************************)
(* Properties of the background tasks.                                     *)
(***************************************************************************)
\* the shutdown signal has reached task t: its context is cancelled or its
\* Stop was called
Signalled(t) == app.ctxDone \/ t \in app.stopChan

\* C23: after the shutdown signal the recurrence task and the backup task
\* start no further run: a task that waits in its select with the signal
\* given does not enter another run.
C23_NoRunAfterSignal ==
    [][\A t \in Tasks :
          app.task[t].pc = "select" /\ Signalled(t) => app'.task[t].pc # "run"]_vars

(***************************************************************************)
(* Properties of the application.                                          *)
(***************************************************************************)
\* C22: while the application runs a background task invokes
\* ProcessAllRecurringTransactions once at startup (and then every 24
\* hours): an application that became ready and has ended has had at least
\* the startup run of the recurrence task.
C22_RecurrenceAtStartup ==
    app.ready /\ app.main = "ended" => app.task["recurrence"].runs >= 1

(***************************************************************************)
(* Properties of GetStatistics, under SpecStats.                           *)
(***************************************************************************)
\* the sum of the amounts of a set of transactions
RECURSIVE AmountOf(_)
AmountOf(S) ==
    IF S = {} THEN 0
    ELSE LET t == CHOOSE x \in S : TRUE IN t.Amount + AmountOf(S \ {t})

StatsReturned(p) ==
    pc[p] = "done" /\ op[p].name = "GetStatistics" /\ result[p].kind = "statistics"

\* the transactions of the user that GetAllTransactions selects for the
\* period of the answered request
InPeriod(p) ==
    {t \in Values(transactions[op[p].user]) :
        /\ IsZero(op[p].fromDate) \/ ~Before(t.Date, op[p].fromDate)
        /\ IsZero(op[p].toDate) \/ ~After(t.Date, op[p].toDate)}

\* the days from fromDate to toDate, both included, as day numbers
PeriodDays(p) == DayOf(op[p].fromDate)..DayOf(op[p].toDate)

\* C24: the general statistics of an answer are the sum of the income
\* amounts of the period, the sum of the other amounts of the period, and
\* their difference
C24_GeneralTotals ==
    \A p \in env.procs :
        StatsReturned(p) =>
            LET g == result[p].GeneralStatistics
                income == AmountOf({t \in InPeriod(p) : t.Category = IncomeCategory})
                expenses == AmountOf({t \in InPeriod(p) : t.Category # IncomeCategory})
            IN  /\ g.Income = income
                /\ g.Expenses = expenses
                /\ g.Balance = income - expenses

\* an answer over a period holding the income of 1000 and the expense of 300
C24_Witness ==
    \E p \in env.procs :
        /\ StatsReturned(p)
        /\ result[p].GeneralStatistics = [Income |-> 1000, Expenses |-> 300, Balance |-> 700]
        /\ Cardinality(InPeriod(p)) = 2
        /\ Cardinality(DOMAIN transactions[op[p].user]) > 2

\* C25: balanceChangesByDate has a key for every date from fromDate to toDate
\* and, at every key, the income amounts minus the other amounts of the
\* transactions of the period dated that day; 0 where there are none
C25_BalanceChangesByDate ==
    \A p \in env.procs :
        StatsReturned(p) =>
            LET b == result[p].BalanceChangesByDate
                dated(d) == {t \in InPeriod(p) : FormatDate(t.Date) = d}
                change(d) == AmountOf({t \in dated(d) : t.Category = IncomeCategory})
                             - AmountOf({t \in dated(d) : t.Category # IncomeCategory})
            IN  /\ \A n \in PeriodDays(p) : FormatDate(n * TicksPerDay) \in DOMAIN b
                /\ \A d \in DOMAIN b : b[d] = change(d)
                /\ \A d \in DOMAIN b : dated(d) = {} => b[d] = 0

\* an answer with +1000 on the income date, -300 on the expense date and 0 on
\* the other dates of the month
C25_Witness ==
    \E p \in env.procs :
        /\ StatsReturned(p)
        /\ LET b == result[p].BalanceChangesByDate
           IN  /\ Cardinality(DOMAIN b) = 31
               /\ b[FormatDate(QueryDay(2))] = 1000
               /\ b[FormatDate(QueryDay(1))] = 0 - 300
               /\ \A d \in DOMAIN b :
                     d \notin {FormatDate(QueryDay(2)), FormatDate(QueryDay(1))} => b[d] = 0

\* C26: the spending curve has one entry per date of the period in ascending
\* order; currentSpending is the sum of the non-income amounts of the period
\* dated that day, averageSpending the total of the non-income amounts of the
\* whole history dated that day
C26_SpendingCurve ==
    \A p \in env.procs :
        StatsReturned(p) =>
            LET c == result[p].SpendingCurveInfo
                first == DayOf(op[p].fromDate)
                spent(S, d) == AmountOf({t \in S : /\ t.Category # IncomeCategory
                                                    /\ FormatDate(t.Date) = d})
            IN  /\ Len(c) = Cardinality(PeriodDays(p))
                /\ \A k \in 1..Len(c) :
                      /\ c[k].Date = FormatDate((first + k - 1) * TicksPerDay)
                      /\ c[k].CurrentSpending = spent(InPeriod(p), c[k].Date)
                      /\ c[k].AverageSpending =
                             spent(Values(transactions[op[p].user]), c[k].Date)

(***************************************************************************)
(* Properties of CreateCategory, under SpecBackup.                         *)
(***************************************************************************)
\* name is, ignoring case, a category of the user or a base category
Collides(userID, name) ==
    \/ /\ userID \in DOMAIN userCategories
       /\ \E i \in 1..Len(userCategories[userID]) :
              EqualFold(userCategories[userID][i], name)
    \/ \E i \in 1..Len(baseCategories) : EqualFold(baseCategories[i], name)

\* no user has two categories equal ignoring case, nor one equal ignoring
\* case to a base category
UniqueCategories ==
    \A u \in DOMAIN userCategories :
        LET list == userCategories[u]
        IN  /\ \A i, j \in 1..Len(list) : EqualFold(list[i], list[j]) => i = j
            /\ \A i \in 1..Len(list), k \in 1..Len(baseCategories) :
                  ~EqualFold(list[i], baseCategories[k])

\* C27: a CreateCategory whose name collides, ignoring case, with a category
\* of the caller or a base category is refused with Conflict and adds
\* nothing; so the categories of every user stay unique ignoring case and
\* apart from the base categories
C27_DuplicateIsConflict ==
    /\ [][\A p \in env.procs, u \in env.users, name \in CategoryNames :
              CreateCategory(p, u, name) /\ TrimSpace(name) # <<>> /\ Collides(u, name)
                  => /\ result'[p] = [kind |-> "error", err |-> "conflict"]
                     /\ userCategories' = userCategories]_vars
    /\ []UniqueCategories

(***************************************************************************)
(* Properties of the shutdown, under SpecApp.                              *)
(***************************************************************************)
\* the files the final PerformBackup wrote for the Backupable called name
FinalEntries(name) ==
    {e \in app.log : e.run = app.backup.run /\ e.name = name /\ e.written}

\* C28: the final PerformBackup runs after the two goroutines of runServer
\* and the backup task have exited, the backup task has run PerformBackup
\* before, and when the process ends with every request completed the final
\* backup of the transactions holds the store as the requests left it
C28_FinalBackupHasAll ==
    /\ app.backup.caller = "final" =>
           /\ app.serve = "exited"
           /\ app.shut = "exited"
           /\ app.task["backup"].pc = "exited"
           /\ app.task["backup"].runs >= 1
    /\ app.main = "ended" /\ app.backup.caller = "final" /\ pc[Handler] = "idle" =>
           \A e \in FinalEntries("transactions") : e.data = BackupData(transactions)

(***************************************************************************)
(* Properties of the backup task, under SpecTasks.                         *)
(***************************************************************************)
\* what the PerformBackup run numbered run left behind
EntriesOfRun(run) == {e \in app.log : e.run = run}

\* C29: a PerformBackup that has reached its loop leaves, when it ends, a
\* file or a logged failure for every registered Backupable, whichever of
\* them failed; the backup task leaves its loop only on a stop or a
\* cancellation; and every tick it takes starts a new PerformBackup
C29_BackupFailuresNonFatal ==
    /\ [](app.backup.pc = "end" /\ EntriesOfRun(app.backup.run) # {} =>
              \A k \in 1..Len(Backupables) :
                  \E e \in EntriesOfRun(app.backup.run) : e.name = Backupables[k])
    /\ [](app.task["backup"].pc = "exited" => Signalled("backup"))
    /\ [][app.task["backup"].tick /\ ~app'.task["backup"].tick =>
              /\ app'.task["backup"].pc = "run"
              /\ app'.backup.pc = "begin"
              /\ app'.backup.run = app.backup.run + 1]_vars

\* the first run failed on the transactions and wrote the categories, and
\* the run after the tick has written the transactions
C29_Witness ==
    /\ \E e \in EntriesOfRun(1) : e.name = "transactions" /\ ~e.written
    /\ \E e \in EntriesOfRun(1) : e.name = "categories" /\ e.written
    /\ \E e \in EntriesOfRun(2) : e.name = "transactions" /\ e.written
    /\ app.task["backup"].runs = 2

(***************************************************************************)
(* Lock balance of the store, under SpecLocks.                             *)
(***************************************************************************)
\* C30: every operation of the store releases the locks it acquired, on
\* every path: whenever no goroutine is inside an operation the RWMutex has
\* no reader and no writer
C30_LockBalance ==
    (\A p \in env.procs : pc[p] \in {"idle", "done"}) =>
        readerCount = 0 /\ writer = NoProc

(***************************************************************************)
(* Two runs of ProcessAllRecurringTransactions on one day, under SpecSeq.  *)
(***************************************************************************)
\* C31: a second run of ProcessAllRecurringTransactions on the day of a run
\* adds no transaction and changes no field.  A run acts on the due
\* transactions only (lines 787-794), so this is: a run leaves no
\* transaction due on its own day.
C31_SecondRunIdle ==
    [][\A p \in Procs : ProcessRuns(p) =>
          DueTransactions(transactions', op[p].today) = {}]_vars

PagesOf(o) ==
    {p \in Procs :
        /\ QueryAnswered(p)
        /\ op[p].name = "GetTransactions"
        /\ op[p].user = o.user
        /\ op[p].categories = o.categories
        /\ op[p].fromDate = o.fromDate
        /\ op[p].toDate = o.toDate
        /\ op[p].pageSize = o.pageSize}

\* C33: when calls with one filter and one pageSize have answered the pages
\* 1..totalPages of an unchanged store, the pages together hold every
\* matching transaction, and no transaction is on two pages
C33_PagesPartition ==
    \A p \in Procs :
        (QueryAnswered(p) /\ op[p].name = "GetTransactions") =>
            LET calls == PagesOf(op[p])
            IN  ({op[q].page : q \in calls} = 1..result[p].TotalPages
                 /\ \A q, r \in calls : q # r => op[q].page # op[r].page)
                    => /\ UNION {DataSet(result[q].Data) : q \in calls} = Matching(op[p])
                       /\ \A q, r \in calls :
                             q # r => DataSet(result[q].Data) \cap DataSet(result[r].Data) = {}

(***************************************************************************)
(* The frame of ProcessAllRecurringTransactions, under SpecSeq.            *)
(***************************************************************************)
\* C34: a run of ProcessAllRecurringTransactions leaves every transaction
\* that is not due on its day (empty repeat spec, no next-appear-date, or a
\* next-appear-date on another day) as it is in every field, removes no
\* transaction, creates and removes no collection, and leaves the collection
\* of a user with no due transaction as it is
C34_ProcessFrame ==
    [][\A p \in Procs : ProcessRuns(p) =>
          LET today == op[p].today
              notDue(t) == \/ t.RepeatTime = <<>>
                           \/ IsZero(t.NextAppearDate)
                           \/ Truncate24h(t.NextAppearDate) # today
          IN  /\ DOMAIN transactions' = DOMAIN transactions
              /\ \A u \in DOMAIN transactions :
                    /\ DOMAIN transactions[u] \subseteq DOMAIN transactions'[u]
                    /\ \A id \in DOMAIN transactions[u] :
                          notDue(transactions[u][id])
                              => transactions'[u][id] = transactions[u][id]
                    /\ (\A id \in DOMAIN transactions[u] : notDue(transactions[u][id]))
                           => transactions'[u] = transactions[u]
      ]_vars

\* a run has returned that spawned a copy for one user and found nothing due
\* for another user, who has transactions
C34_Witness ==
    \E p \in Procs :
        /\ pc[p] = "done"
        /\ op[p].name = "ProcessAllRecurringTransactions"
        /\ \E u, v \in DOMAIN transactions :
              /\ \E id \in DOMAIN transactions[u] :
                    <<u, id>> \in fired /\ transactions[u][id].RepeatTime = <<>>
              /\ \E id \in DOMAIN transactions[u] :
                    <<u, id>> \notin fired /\ transactions[u][id].Date # op[p].today
              /\ transactions[v] # EmptyMap
              /\ \A id \in DOMAIN transactions[v] :
                    <<v, id>> \notin fired /\ transactions[v][id].Date # op[p].today

(***************************************************************************)
(* The dates of a GetStatistics result, under SpecStats.                   *)
(***************************************************************************)
\* the dates from the response's fromDate to its toDate, both included
ResponseDates(r) ==
    {FormatDate(n * TicksPerDay) :
        n \in DayOf(ParseDate(r.FromDate).val)..DayOf(ParseDate(r.ToDate).val)}

\* C35: in every result of GetStatistics the dates of the spendingCurve
\* entries are the keys of balanceChangesByDate, and both are the dates from
\* the response's fromDate to its toDate
C35_SameDates ==
    \A p \in env.procs :
        StatsReturned(p) =>
            LET r == result[p]
                curveDates == {r.SpendingCurveInfo[k].Date :
                                  k \in 1..Len(r.SpendingCurveInfo)}
            IN  /\ curveDates = DOMAIN r.BalanceChangesByDate
                /\ curveDates = ResponseDates(r)

(***************************************************************************)
(* A refused CreateCategory, under SpecBackup.                             *)
(***************************************************************************)
\* C36: a CreateCategory that returns an error leaves the mapping from
\* users to categories as it was: GetBackupData of the categories returns
\* the same value, with the same users, before and after the call
C36_RefusedLeavesMapping ==
    [][\A p \in env.procs, u \in env.users, name \in CategoryNames :
          CreateCategory(p, u, name) /\ result'[p].kind = "error"
              => /\ CategoriesBackupData(userCategories')
                        = CategoriesBackupData(userCategories)
                 /\ DOMAIN CategoriesBackupData(userCategories')
                        = DOMAIN CategoriesBackupData(userCategories)]_vars

(***************************************************************************)
(* Isolation of the users, under SpecUsers.                                *)
(***************************************************************************)
\* the goroutine p takes a step
Steps(p) == pc'[p] # pc[p] \/ op'[p] # op[p] \/ result'[p] # result[p]

\* the user whose request the goroutine p is serving in this step
ServedUser(p) ==
    IF "user" \in DOMAIN op[p] THEN op[p].user
    ELSE IF "user" \in DOMAIN op'[p] THEN op'[p].user
    ELSE "none"

\* what the store holds for the user b: the collection and the categories,
\* or their absence
Holdings(store, categories, b) ==
    [transactions |-> IF b \in DOMAIN store THEN <<store[b]>> ELSE <<>>,
     categories |-> IF b \in DOMAIN categories THEN <<categories[b]>> ELSE <<>>]

ShutdownStuck == Alive /\ app.ctxDone /\ ~ENABLED NextStop

\* C38: once the context is cancelled the shutdown is never stuck before
\* HandleGracefulShutdown has returned; when it has returned, no goroutine
\* is left sending on errChan, the server goroutines and the backup task
\* have exited, and the error returned is the last one received from
\* errChan (nil if none)
C38_ShutdownTerminates ==
    /\ ~ShutdownStuck
    /\ app.main = "ended" /\ app.returned # "none"
          => /\ app.serve = "exited"
             /\ app.shut = "exited"
             /\ app.task["backup"].pc = "exited"
             /\ app.returned = app.appErr

=========================================================================
